---- MODULE Spec2Model ----
(***************************************************************************)
(* Model of rust-test-harness (src/src/lib.rs): the thread-local registry, *)
(* run_tests_with_config, the single-test envelope in its sequential and   *)
(* its parallel variant, the timeout wrapper and the process-wide shared   *)
(* context.                                                                *)
(*                                                                         *)
(* Conventions.  Option<T> is a sequence of length 0 (None) or 1 (Some).   *)
(* Strings that the code inspects (test names, the filter) are sequences   *)
(* of characters; indices are 1-based (index i of the model is index i-1   *)
(* of the code).  A closure (test body or hook) is user code: the registry *)
(* holds, for each closure, the set of results it may produce and the set  *)
(* of context operations it may perform; what one invocation does is       *)
(* chosen from these sets when the closure is invoked.                     *)
(***************************************************************************)
EXTENDS Integers, Sequences, FiniteSets, TLC

\* ---------------------------------------------------------------- bounds
MaxTests   == 2      \* registered tests per run
MaxHooks   == 2      \* hooks per hook list
MaxShuffled == 3      \* tests per run in the runs that shuffle
MaxWorkers == 2      \* largest worker pool that is explored
MaxRuns    == 2      \* calls of run_tests_with_config on one thread
MaxStarts  == 2      \* successful calls of ContainerConfig::start
MaxAuto    == 2      \* auto ports per ContainerConfig

\* ------------------------------------------------------------- Option<T>
None      == << >>
Some(x)   == << x >>
IsSome(o) == Len(o) = 1

\* --------------------------------------- TimeoutStrategy, TimeoutConfig
Simple      == << "Simple" >>
Aggressive  == << "Aggressive" >>
Graceful(d) == << "Graceful", d >>

\* impl Default for TimeoutConfig: the default strategy.
TimeoutConfig_default == Aggressive

\* -------------------------------------------------- TestStatus, TestError
Pending == << "Pending" >>
Running == << "Running" >>
Passed  == << "Passed" >>
Skipped == << "Skipped" >>
Message(m)  == << "Message", m >>
Panicked(m) == << "Panicked", m >>
Timeout(d)  == << "Timeout", d >>
Failed(e)   == << "Failed", e >>
IsFailed(s) == s[1] = "Failed"
IsTerminal(s) == s[1] \in {"Passed", "Failed", "Skipped"}

\* A TestResult is Ok or Err(TestError).
Ok     == << "Ok" >>
Err(e) == << "Err", e >>

\* The texts user code fails with, and the text of the lock failure.
UserMsg   == "boom"
PanicMsg  == "panic"
\* ---------------------------------------------------------------- closures
\* What one invocation of a closure does: it returns Ok, returns an error
\* or panics.
Results == {"ok", "err", "panic"}

\* TestContext.data: key -> Box<dyn Any>.  A value is <<type, writer>>; the
\* type is "String" or "Other" (any type that is not String), the writer is
\* the index of the test in whose context it was written, 0 for a before_all
\* hook of this run and -1 for a value left by an earlier run.  Absent keys
\* map to << >>.
Keys     == {"k"}
Absent   == << >>
Val(ty, by) == << ty, by >>
EmptyData == [k \in Keys |-> Absent]
IsString(v) == v # Absent /\ v[1] = "String"

\* TestContext::set_data / TestContext::remove_data, or nothing.
NoOp        == << "none" >>
SetOp(k, ty) == << "set", k, ty >>
RemoveOp(k) == << "remove", k >>
CtxOps ==
  LET Types    == {"String", "Other"}
  IN      {NoOp} \cup {SetOp(k, ty) : k \in Keys, ty \in Types}
                 \cup {RemoveOp(k) : k \in Keys}

set_data(data, k, v) == [data EXCEPT ![k] = v]
remove_data(data, k) == [data EXCEPT ![k] = Absent]

\* The effect of one closure invocation on the context it was given.
ApplyOp(data, op, by) ==
    IF op[1] = "set" THEN set_data(data, op[2], Val(op[3], by))
    ELSE IF op[1] = "remove" THEN remove_data(data, op[2])
    ELSE data

\* A closure: the results it may produce and the operations it may perform.
Closure(may, ops) == [may |-> may, ops |-> ops]
Quiet   == Closure({"ok"}, {NoOp})
Flaky   == Closure(Results, {NoOp})
Writer  == Closure({"ok"}, CtxOps)

\* The record of one closure invocation: which list, which position in
\* the list (0 for a test body), the result.
Event(kind, k, res) == << kind, k, res >>

\* ------------------------------------------------------------------ strings
\* str::contains: f occurs in s as a contiguous substring.
contains(s, f) ==
    \E i \in 0..(Len(s) - Len(f)) : SubSeq(s, i + 1, i + Len(f)) = f

\* Vec::contains
vec_contains(v, x) == \E i \in 1..Len(v) : v[i] = x

\* ------------------------------------------------------------------- state
VARIABLES
    registry,            \* THREAD_TESTS and the four THREAD_* hook lists
    config,              \* the TestConfig passed to run_tests_with_config
    GLOBAL_SHARED_DATA,  \* process-wide map String -> String
    pc,                  \* position of the thread in run_tests_with_config
    tests,               \* local `tests` of the run (with their status)
    hooks,               \* the four drained hook lists
    hi,                  \* index of the next before_all / after_all hook
    shared_context,      \* shared_context.data
    test_indices,        \* result of filter_and_sort_test_indices
    dispatched,          \* positions of test_indices already handed out
    workers,             \* one envelope per worker (0 is the calling thread)
    mutex,               \* per before_each/after_each hook: holder, poisoned
    results,             \* parallel mode: collected (idx, status) pairs
    overall,             \* overall_failed, overall_skipped
    events,              \* per test: the closures invoked for it, in order
    calls,               \* the before_all / after_all hooks invoked, in order
    published,           \* strings of shared_context when before_all ended
    ret,                 \* value returned by run_tests_with_config
    threads,             \* per test: the thread spawned for a timed body
    exit_codes,          \* values returned by the earlier runs of the thread
    build,               \* the build: with or without the feature "docker"
    CONTAINER_REGISTRY,  \* process-wide list of container ids to clean up
    daemon,              \* containers the Docker daemon runs: id -> ports
    in_flight,           \* per caller of start: the host ports it resolved
    infos,               \* configs and ContainerInfos of successful starts
    last_stop,           \* the last call of stop and what it returned
    cleaners,            \* per thread: ids it drained, ids it called stop for
    peer                 \* a second thread: its THREAD_* lists, what it ran

vars == << registry, config, GLOBAL_SHARED_DATA, pc, tests, hooks, hi,
           shared_context, test_indices, dispatched, workers, mutex,
           results, overall, events, calls, published, ret, threads,
           exit_codes, build, CONTAINER_REGISTRY, daemon, in_flight, infos,
           last_stop, cleaners, peer >>

\* The state of the run_tests_with_config call and of the registries it
\* drains.
harness_vars == << registry, config, GLOBAL_SHARED_DATA, pc, tests, hooks, hi,
                   shared_context, test_indices, dispatched, workers, mutex,
                   results, overall, events, calls, published, ret, threads,
                   exit_codes >>

\* The state of the containers and of their cleanup registry.
container_vars == << build, CONTAINER_REGISTRY, daemon, in_flight, infos,
                     last_stop, cleaners >>

\* ------------------------------------------------------------ registrations
\* test / test_with_tags / test_with_timeout: the TestCase pushed.
TestCase(name, tags, timeout, f) ==
    [name |-> name, tags |-> tags, timeout |-> timeout, test_fn |-> f,
     status |-> Pending]

Limit == 1           \* the time limit given to test_with_timeout

\* Sequences over S of length 0..n.
SeqUpTo(S, n) == UNION {[1..m -> S] : m \in 0..n}

HookLists == {"before_all", "before_each", "after_each", "after_all"}

Registry(ts, ba, be, ae, aa) ==
    [tests |-> ts, before_all |-> ba, before_each |-> be,
     after_each |-> ae, after_all |-> aa]

EmptyRegistry == Registry(<< >>, << >>, << >>, << >>, << >>)

\* ------------------------------------------------------------------ config
TestConfig(filter, skip_tags, max_concurrency, skip_hooks) ==
    [filter |-> filter, skip_tags |-> skip_tags,
     max_concurrency |-> max_concurrency, shuffle_seed |-> None,
     skip_hooks |-> skip_hooks, timeout_config |-> TimeoutConfig_default]

\* config.skip_hooks.unwrap_or(false)
skip_hooks == IsSome(config.skip_hooks) /\ config.skip_hooks[1]

\* std::thread::available_parallelism() of the host
available_parallelism == 2

\* Number of worker threads of the rayon pool (max_workers).
max_workers ==
    IF IsSome(config.max_concurrency) THEN config.max_concurrency[1]
    ELSE available_parallelism

\* is_parallel as it would be if only a concurrency of one were run
\* sequentially.
is_parallel_unless_one ==
    IF IsSome(config.max_concurrency) THEN config.max_concurrency[1] # 1
    ELSE TRUE

\* Lines 395-408: the run takes the parallel branch.
is_parallel ==
    IF IsSome(config.max_concurrency) THEN config.max_concurrency[1] > 1
    ELSE TRUE

\* ----------------------------------------------------------------- workers
\* The envelope a worker is running: the test, the position in the
\* envelope, the next hook, the per-test context, the context the body was
\* entered with, the keys the before_each hooks wrote, the values the body
\* set, the body's result.
IdleWorker ==
    [idx |-> 0, phase |-> "idle", k |-> 0, ctx |-> EmptyData,
     entry |-> EmptyData, touched |-> {}, body_set |-> EmptyData,
     test_result |-> Ok]

\* The thread of a timed body: not spawned, running, its message sent on
\* the channel, the message received, abandoned by the envelope at the
\* deadline, ended after it was abandoned.
NoThread == [state |-> "none", strategy |-> None, msg |-> None]

Workers == 0..MaxWorkers

\* Mutex<Box<dyn FnMut>>: who holds it (-1: nobody) and the poison flag.
FreeMutex == [holder |-> -1, poisoned |-> FALSE]

\* ------------------------------------------------------------------- Init
\* n registrations of the same closure.
Hooks(c, n) == [i \in 1..n |-> c]

TestNames == { << "a" >>, << "b", "a" >> }
Timeouts  == { None, Some(Limit) }
\* The grace period of the Graceful strategy, and the strategies a config
\* may name.
Grace == 1
Runs ==
  LET \* The same config with a shuffle seed.
      WithSeed(cfg, seed) == [cfg EXCEPT !.shuffle_seed = Some(seed)]
      \* The same config with another timeout strategy.
      WithStrategy(cfg, s) == [cfg EXCEPT !.timeout_config = s]
      TagLists  == { << >>, << "slow" >> }
      Filters   == { None, Some(<< >>), Some(<< "b" >>), Some(<< "a", "b" >>) }
      SkipTags  == { << >>, << "slow" >> }
      \* What an earlier run may have left in the process-wide map.
      StaleMaps == [Keys -> {Absent, Val("String", -1)}]
      \* The registrations and configs that are explored, as triples
      \* <<registry, config, global map>>.
      \* Hook lifecycle, sequential: up to MaxTests tests whose bodies and hooks
      \* may return Ok, return an error or panic; every length of the two *_all
      \* lists and of the two *_each lists; hooks enabled and skipped.
      LifecycleRuns ==
          { << Registry(ts, Hooks(Flaky, na), Hooks(Flaky, ne), Hooks(Flaky, ne),
                        Hooks(Flaky, na)),
               TestConfig(None, << >>, Some(1), sh), EmptyData >> :
              ts \in SeqUpTo({TestCase(<< "a" >>, << >>, None, Flaky)}, MaxTests),
              na \in 0..MaxHooks, ne \in 0..MaxHooks, sh \in {None, Some(TRUE)} }
      \* Hook lifecycle, parallel: the same tests and *_each hooks on a pool of
      \* MaxWorkers threads, one before_all and one after_all hook.
      ParallelLifecycleRuns ==
          { << Registry(ts, Hooks(Flaky, 1), Hooks(Flaky, ne), Hooks(Flaky, ne),
                        Hooks(Flaky, 1)),
               TestConfig(None, << >>, Some(MaxWorkers), sh), EmptyData >> :
              ts \in SeqUpTo({TestCase(<< "a" >>, << >>, None, Flaky)}, MaxTests),
              ne \in 0..MaxHooks, sh \in {None, Some(TRUE)} }
      \* Filtering: tests of every name and tag list whose bodies pass or fail,
      \* every filter and skip-tag list; sequentially (a concurrency of zero)
      \* with one hook per list, and on the default pool without hooks.
      FilterRuns ==
          { << Registry(ts, Hooks(Quiet, nh), Hooks(Quiet, nh), Hooks(Quiet, nh),
                        Hooks(Quiet, nh)),
               TestConfig(f, st, IF nh = 1 THEN Some(0) ELSE None, Some(FALSE)),
               EmptyData >> :
              ts \in SeqUpTo({TestCase(n, tg, None, Closure({"ok", "err"}, {NoOp})) :
                                n \in TestNames, tg \in TagLists}, MaxTests),
              f \in Filters, st \in SkipTags, nh \in 0..1 }
      \* Contexts and time limits, sequential: bodies and hooks that write to
      \* the context they are given, tests with and without a time limit, a
      \* global map that an earlier run may have filled.
      ContextRuns ==
          { << Registry(ts, Hooks(Writer, na), Hooks(Writer, 1), Hooks(Writer, 1),
                        Hooks(Quiet, na)),
               TestConfig(None, << >>, Some(1), None), glob >> :
              ts \in SeqUpTo({TestCase(<< "a" >>, << >>, to, Closure(Results, CtxOps)) :
                                to \in Timeouts}, MaxTests),
              na \in 0..1, glob \in StaleMaps }
      \* Contexts and time limits, parallel: a before_all hook that publishes a
      \* string, one before_each hook and bodies that write to their context.
      ParallelContextRuns ==
          { << Registry(ts, Hooks(Closure({"ok"}, {SetOp(k, "String")}), 1),
                        Hooks(Writer, 1), << >>, Hooks(Quiet, 1)),
               TestConfig(None, << >>, Some(MaxWorkers), None), EmptyData >> :
              ts \in SeqUpTo({TestCase(<< "a" >>, << >>, to, Writer) :
                                to \in Timeouts}, MaxTests),
              k \in Keys }
      Strategies == { Simple, Aggressive, Graceful(Grace) }
      \* Time limits, a limit of zero included.
      Limits == { 0, Limit }
      \* Time limits: tests with a limit whose bodies return Ok, return an error
      \* or panic, one after_each hook; sequentially with every strategy in the
      \* config, and on a pool of MaxWorkers threads with the default strategy.
      TimeoutRuns ==
          { << Registry(ts, << >>, << >>, Hooks(Quiet, 1), << >>),
               WithStrategy(TestConfig(None, << >>, ms[1], None), ms[2]),
               EmptyData >> :
              ts \in SeqUpTo({TestCase(<< "a" >>, << >>, Some(l), Flaky) :
                                l \in Limits}, MaxTests),
              ms \in ({Some(1)} \X Strategies)
                       \cup {<< Some(MaxWorkers), TimeoutConfig_default >>} }
      \* Shuffle seeds.
      Seeds == { 0, 1, 12345 }
      \* Shuffling: MaxShuffled tests of every name whose bodies pass, without
      \* hooks, with and without a name filter, with every seed; sequentially
      \* and on the default pool.
      ShuffleRuns ==
          { << Registry(ts, << >>, << >>, << >>, << >>),
               WithSeed(TestConfig(f, << >>, mc, None), seed), EmptyData >> :
              ts \in [1..MaxShuffled -> {TestCase(n, << >>, None, Quiet) :
                                           n \in TestNames}],
              f \in {None, Some(<< "b" >>)}, mc \in {Some(1), None},
              seed \in Seeds }
      \* More tests than workers: MaxWorkers + 1 tests whose bodies pass or
      \* fail and one before_each hook, on a pool of MaxWorkers threads.
      PoolRuns ==
          { << Registry(ts, << >>, Hooks(Quiet, 1), << >>, << >>),
               TestConfig(None, << >>, Some(MaxWorkers), None), EmptyData >> :
              ts \in [1..(MaxWorkers + 1) ->
                        {TestCase(<< "a" >>, << >>, None,
                                  Closure({"ok", "err"}, {NoOp}))}] }
  IN    LifecycleRuns \cup ParallelLifecycleRuns \cup FilterRuns
            \cup ContextRuns \cup ParallelContextRuns \cup TimeoutRuns
            \cup ShuffleRuns \cup PoolRuns

\* A second thread that has registered nothing and has run nothing.
IdlePeer == [registry |-> EmptyRegistry, ran |-> None]

InitRun(reg, cfg, glob) ==
    /\ registry = reg
    /\ config = cfg
    /\ GLOBAL_SHARED_DATA = glob
    /\ pc = "start"
    /\ tests = << >>
    /\ hooks = EmptyRegistry
    /\ hi = 1
    /\ shared_context = EmptyData
    /\ test_indices = << >>
    /\ dispatched = {}
    /\ workers = [w \in Workers |-> IdleWorker]
    /\ mutex = [before_each |-> << >>, after_each |-> << >>]
    /\ results = {}
    /\ overall = [failed |-> 0, skipped |-> 0]
    /\ events = << >>
    /\ calls = << >>
    /\ published = EmptyData
    /\ ret = None
    /\ threads = << >>
    /\ exit_codes = << >>
    /\ peer = IdlePeer

\* ------------------------------------------------- run_tests_with_config
\* run_drain as it would be if the lists were copied and not drained.
run_drain_by_copy ==
    /\ pc = "start"
    /\ tests' = registry.tests
    /\ hooks' = [registry EXCEPT !.tests = << >>]
    /\ registry' = registry
    /\ events' = [i \in 1..Len(registry.tests) |-> << >>]
    /\ threads' = [i \in 1..Len(registry.tests) |-> NoThread]
    /\ calls' = << >>
    /\ mutex' = [before_each |-> [h \in 1..Len(registry.before_each) |-> FreeMutex],
                 after_each  |-> [h \in 1..Len(registry.after_each) |-> FreeMutex]]
    /\ shared_context' = EmptyData
    /\ hi' = 1
    /\ IF registry.tests = << >>
         THEN pc' = "returned" /\ ret' = Some(0)
         ELSE pc' = "before_all" /\ ret' = ret
    /\ UNCHANGED << config, GLOBAL_SHARED_DATA, test_indices, dispatched,
                    workers, results, overall, published,
                    exit_codes, container_vars, peer >>

\* Lines 315-327: drain the five thread-local lists; no tests: return 0.
run_drain ==
    /\ pc = "start"
    /\ tests' = registry.tests
    /\ hooks' = [registry EXCEPT !.tests = << >>]
    /\ registry' = EmptyRegistry
    /\ events' = [i \in 1..Len(registry.tests) |-> << >>]
    /\ threads' = [i \in 1..Len(registry.tests) |-> NoThread]
    /\ calls' = << >>
    /\ mutex' = [before_each |-> [h \in 1..Len(registry.before_each) |-> FreeMutex],
                 after_each  |-> [h \in 1..Len(registry.after_each) |-> FreeMutex]]
    /\ shared_context' = EmptyData
    /\ hi' = 1
    /\ IF registry.tests = << >>
         THEN pc' = "returned" /\ ret' = Some(0)
         ELSE pc' = "before_all" /\ ret' = ret
    /\ UNCHANGED << config, GLOBAL_SHARED_DATA, test_indices, dispatched,
                    workers, results, overall, published,
                    exit_codes, container_vars, peer >>

\* runs_before_all with the test of skip_hooks inverted.
runs_before_all_inverted == skip_hooks /\ hooks.before_all # << >>

\* The before_all block is entered (line 331).
runs_before_all == ~skip_hooks /\ hooks.before_all # << >>

\* before_all_match as it would be if a failed before_all hook were only
\* logged, as a failed after_all hook is.
before_all_match_ignore(res) == [pc |-> pc, ret |-> ret]

\* Lines 344-363: the match on the result of a before_all hook.  A hook
\* that fails or panics makes the run return 1.
before_all_match(res) ==
    IF res = "ok" THEN [pc |-> pc, ret |-> ret]
    ELSE [pc |-> "returned", ret |-> Some(1)]

\* Lines 335-364: one iteration of the before_all loop.
before_all_hook(res, op) ==
    /\ pc = "before_all"
    /\ runs_before_all
    /\ hi <= Len(hooks.before_all)
    /\ res \in hooks.before_all[hi].may
    /\ op \in hooks.before_all[hi].ops
    /\ calls' = Append(calls, Event("before_all", hi, res))
    /\ shared_context' = ApplyOp(shared_context, op, 0)
    /\ hi' = hi + 1
    /\ pc' = before_all_match(res).pc
    /\ ret' = before_all_match(res).ret
    /\ UNCHANGED << registry, config, GLOBAL_SHARED_DATA, tests, hooks,
                    test_indices, dispatched, workers, mutex, results,
                    overall, events, published, threads,
                    exit_codes, container_vars, peer >>

\* Lines 368-377: clear_global_context, then copy every String value of
\* shared_context into the global map.
publish(glob, data) ==
    [k \in Keys |-> IF IsString(data[k]) THEN data[k] ELSE Absent]

\* retained as it would be if the skip tags were not looked at.
retained_ignore_tags(ts, cfg, i) ==
    IsSome(cfg.filter) => contains(ts[i].name, cfg.filter[1])

\* Lines 499-509 of filter_and_sort_test_indices: the indices retained by
\* the name filter and by the skip tags.
retained(ts, cfg, i) ==
    /\ IsSome(cfg.filter) => contains(ts[i].name, cfg.filter[1])
    /\ cfg.skip_tags # << >> =>
         ~ \E s \in 1..Len(cfg.skip_tags) :
               vec_contains(ts[i].tags, cfg.skip_tags[s])

RECURSIVE retain_from(_, _, _)
retain_from(ts, cfg, i) ==
    IF i > Len(ts) THEN << >>
    ELSE IF retained(ts, cfg, i) THEN << i >> \o retain_from(ts, cfg, i + 1)
    ELSE retain_from(ts, cfg, i + 1)

\* u64 values are kept as eight bytes, least significant first, so that
\* wrapping_mul and wrapping_add wrap at 2^64 as they do in the code.
Byte == 256
Width == 8

\* Line 524: the multiplier 1103515245 and the increment 12345.
LCG_A == << 109, 78, 198, 65, 0, 0, 0, 0 >>
LCG_C == << 57, 48, 0, 0, 0, 0, 0, 0 >>

\* Lines 517-519: DefaultHasher::new() (SipHash-1-3, both keys zero) fed
\* with the seed, for the seeds that are explored.
DefaultHasher(seed) ==
    CASE seed = 0     -> << 69, 158, 199, 88, 182, 172, 96, 189 >>
      [] seed = 1     -> << 217, 45, 214, 97, 65, 115, 159, 30 >>
      [] seed = 12345 -> << 236, 36, 8, 95, 138, 99, 62, 154 >>

\* Sum of the byte products that fall on byte k of a product.
RECURSIVE column(_, _, _, _)
column(a, b, k, i) ==
    IF i > k THEN 0 ELSE a[i] * b[k + 1 - i] + column(a, b, k, i + 1)

RECURSIVE mul_from(_, _, _, _)
mul_from(a, b, k, carry) ==
    IF k > Width THEN << >>
    ELSE LET t == column(a, b, k, 1) + carry
         IN  << t % Byte >> \o mul_from(a, b, k + 1, t \div Byte)

\* u64::wrapping_mul
wrapping_mul(a, b) == mul_from(a, b, 1, 0)

RECURSIVE add_from(_, _, _, _)
add_from(a, b, k, carry) ==
    IF k > Width THEN << >>
    ELSE LET t == a[k] + b[k] + carry
         IN  << t % Byte >> \o add_from(a, b, k + 1, t \div Byte)

\* u64::wrapping_add
wrapping_add(a, b) == add_from(a, b, 1, 0)

RECURSIVE rem_from(_, _, _, _)
rem_from(a, m, k, r) ==
    IF k = 0 THEN r ELSE rem_from(a, m, k - 1, (r * Byte + a[k]) % m)

\* Line 525: (rng_state as usize) % m, usize being 64 bits wide.
rem(a, m) == rem_from(a, m, Width, 0)

\* swap as it would be if it only copied the element at j over the one
\* at i.
swap_overwrite(v, i, j) == [v EXCEPT ![i] = v[j]]

\* Line 526: indices.swap(i, j).
swap(v, i, j) == [v EXCEPT ![i] = v[j], ![j] = v[i]]

\* rng_seed as it would be if the generator were seeded from the size of
\* the worker pool and not only from the seed.
rng_seed_by_pool(cfg) ==
    IF IsSome(cfg.max_concurrency)
    THEN wrapping_add(DefaultHasher(cfg.shuffle_seed[1]), LCG_C)
    ELSE DefaultHasher(cfg.shuffle_seed[1])

\* Lines 517-519: the first rng_state.
rng_seed(cfg) == DefaultHasher(cfg.shuffle_seed[1])

\* Lines 522-527: the Fisher-Yates loop, i running from len - 1 down to 1
\* (positions counted from 0 as in the code).
RECURSIVE fisher_yates(_, _, _)
fisher_yates(indices, rng_state, i) ==
    IF i < 1 THEN indices
    ELSE LET next == wrapping_add(wrapping_mul(rng_state, LCG_A), LCG_C)
             j == rem(next, i + 1)
         IN  fisher_yates(swap(indices, i + 1, j + 1), next, i - 1)

\* Lines 495-531.
filter_and_sort_test_indices(ts, cfg) ==
    LET indices == retain_from(ts, cfg, 1)
    IN  IF IsSome(cfg.shuffle_seed)
        THEN fisher_yates(indices, rng_seed(cfg), Len(indices) - 1)
        ELSE indices

\* Lines 366-408: the before_all loop is over (or was not entered); publish
\* the shared context, filter, and pick the sequential or the parallel
\* runner.  No test retained: return 0.
filter_step ==
    /\ pc = "before_all"
    /\ runs_before_all => hi > Len(hooks.before_all)
    /\ GLOBAL_SHARED_DATA' =
         IF runs_before_all THEN publish(GLOBAL_SHARED_DATA, shared_context)
         ELSE GLOBAL_SHARED_DATA
    /\ published' =
         IF runs_before_all THEN publish(GLOBAL_SHARED_DATA, shared_context)
         ELSE published
    /\ test_indices' = filter_and_sort_test_indices(tests, config)
    /\ IF test_indices' = << >>
         THEN pc' = "returned" /\ ret' = Some(0)
         ELSE /\ pc' = IF is_parallel THEN "parallel" ELSE "sequential"
              /\ ret' = ret
    /\ UNCHANGED << registry, config, tests, hooks, hi, shared_context,
                    dispatched, workers, mutex, results, overall, events,
                    calls, threads,
                    exit_codes, container_vars, peer >>

\* ------------------------------------------------------ the test envelope
\* snapshot_shared_into as it would be if the workers shared one context:
\* a key that some running envelope holds is taken from there.
snapshot_shared_into_leaky(data, glob) ==
    [k \in Keys |->
        IF \E w \in Workers : workers[w].ctx[k] # Absent
        THEN workers[CHOOSE w \in Workers : workers[w].ctx[k] # Absent].ctx[k]
        ELSE IF glob[k] # Absent THEN glob[k] ELSE data[k]]

\* Lines 691-698 / 835-842: copy every entry of the global map into the
\* fresh per-test context.
snapshot_shared_into(data, glob) ==
    [k \in Keys |-> IF glob[k] # Absent THEN glob[k] ELSE data[k]]

\* Lines 664-683 / 812-829: the skip checks at the head of the envelope.
skip_check(t) ==
    \/ IsSome(config.filter) /\ ~contains(t.name, config.filter[1])
    \/ /\ config.skip_tags # << >>
       /\ \E s \in 1..Len(config.skip_tags) :
              vec_contains(t.tags, config.skip_tags[s])

\* The envelope of test idx as it stands after the context was created.
Dispatched(idx) ==
    [idx |-> idx,
     phase |-> IF ~skip_hooks /\ hooks.before_each # << >>
               THEN "before_each" ELSE "body",
     k |-> 1,
     ctx |-> snapshot_shared_into(EmptyData, GLOBAL_SHARED_DATA),
     entry |-> EmptyData, touched |-> {}, body_set |-> EmptyData,
     test_result |-> Ok]

\* after_body as it would be if skip_hooks were not consulted.
after_body_with_hooks == IF hooks.after_each # << >>
                         THEN "after_each" ELSE "finish"

\* Where the envelope continues once the body has produced its result.
after_body == IF ~skip_hooks /\ hooks.after_each # << >>
              THEN "after_each" ELSE "finish"

\* catch_unwind around a closure: a panic becomes Err(Panicked(msg)).
caught(res) ==
    IF res = "ok" THEN Ok
    ELSE IF res = "err" THEN Err(Message(UserMsg))
    ELSE Err(Panicked(PanicMsg))

\* Lines 704-710: hook.lock() fails on a poisoned mutex and the closure is
\* not called; otherwise the closure is called under catch_unwind.
hook_result(m, res) ==
  LET LockMsg   == "Failed to acquire hook lock"
  IN
    IF m.poisoned THEN Err(Message(LockMsg)) ELSE caught(res)

\* The mutex once the guard is dropped: a panic while the guard is held
\* poisons it.
unlock(m, res) ==
    [holder |-> -1, poisoned |-> m.poisoned \/ res = "panic"]

OpKeys(op) == IF op = NoOp THEN {} ELSE {op[2]}

\* A worker's envelope once before_each hook k was called with result res
\* and operation op while the mutex was in state m.
BeforeEachOk(w, m, op) ==
    [workers[w] EXCEPT
       !.ctx = IF m.poisoned THEN @ ELSE ApplyOp(@, op, workers[w].idx),
       !.touched = IF m.poisoned THEN @ ELSE @ \cup OpKeys(op),
       !.k = @ + 1,
       !.phase = IF workers[w].k = Len(hooks.before_each)
                 THEN "body" ELSE "before_each"]

\* BeforeEachErr as it would be if a failed before_each hook sent the
\* envelope to its after_each hooks.
BeforeEachErr_cleanup(w) ==
    [workers[w] EXCEPT !.k = 1, !.phase = after_body,
                       !.test_result = Err(Message(UserMsg))]

\* BeforeEachErr as it would be if the failure of a before_each hook were
\* only logged.
BeforeEachErr_continue(w) ==
    [workers[w] EXCEPT
       !.k = @ + 1,
       !.phase = IF workers[w].k = Len(hooks.before_each)
                 THEN "body" ELSE "before_each"]

\* Lines 715-733 / 859-875: a before_each hook failed; the envelope
\* returns.
BeforeEachErr(w) == IdleWorker

\* AfterEachDone as it would be if a lock that cannot be acquired ended
\* the loop over the after_each hooks.
AfterEachDone_break(w, m, op) ==
    [workers[w] EXCEPT
       !.ctx = IF m.poisoned THEN @ ELSE ApplyOp(@, op, workers[w].idx),
       !.k = @ + 1,
       !.phase = IF workers[w].k = Len(hooks.after_each) \/ m.poisoned
                 THEN "finish" ELSE "after_each"]

\* Lines 749-779 / 898-928: an iteration of the after_each loop is over;
\* whatever the hook returned, the loop goes on.
AfterEachDone(w, m, op) ==
    [workers[w] EXCEPT
       !.ctx = IF m.poisoned THEN @ ELSE ApplyOp(@, op, workers[w].idx),
       !.k = @ + 1,
       !.phase = IF workers[w].k = Len(hooks.after_each)
                 THEN "finish" ELSE "after_each"]

\* Lines 783-793 / 933-942: the status a finished envelope reports.
final_status(test_result) ==
    IF test_result = Ok THEN Passed ELSE Failed(test_result[2])

\* ------------------------------------------- run_test, run_test_with_timeout
\* Lines 950-964: a body without time limit runs on the worker's own
\* context under catch_unwind.
run_test(w, res, op) ==
    /\ pc \in {"sequential", "parallel"}
    /\ workers[w].phase = "body"
    /\ tests[workers[w].idx].timeout = None
    /\ res \in tests[workers[w].idx].test_fn.may
    /\ op \in tests[workers[w].idx].test_fn.ops
    /\ workers' = [workers EXCEPT
          ![w].entry = workers[w].ctx,
          ![w].ctx = ApplyOp(@, op, workers[w].idx),
          ![w].body_set = ApplyOp(EmptyData, op, workers[w].idx),
          ![w].test_result = caught(res),
          ![w].k = 1,
          ![w].phase = after_body]
    /\ events' = [events EXCEPT ![workers[w].idx] =
                     Append(@, Event("body", 0, res))]
    /\ UNCHANGED << registry, config, GLOBAL_SHARED_DATA, pc, tests, hooks,
                    hi, shared_context, test_indices, dispatched, mutex,
                    results, overall, calls, published, ret, threads,
                    exit_codes, container_vars, peer >>

\* Lines 966-972: the TimeoutConfig that run_test_with_timeout hands to
\* run_test_with_timeout_enhanced.
run_test_with_timeout == TimeoutConfig_default

\* Lines 985-992: a body with a time limit is spawned on a thread of its
\* own and runs on a new, empty context.
spawn_body(w) ==
    /\ pc \in {"sequential", "parallel"}
    /\ workers[w].phase = "body"
    /\ tests[workers[w].idx].timeout # None
    /\ workers' = [workers EXCEPT
          ![w].entry = EmptyData,
          ![w].phase = "waiting"]
    /\ threads' = [threads EXCEPT ![workers[w].idx] =
          [state |-> "running", strategy |-> Some(run_test_with_timeout),
           msg |-> None]]
    /\ events' = [events EXCEPT ![workers[w].idx] =
                     Append(@, Event("body", 0, "spawned"))]
    /\ UNCHANGED << registry, config, GLOBAL_SHARED_DATA, pc, tests, hooks,
                    hi, shared_context, test_indices, dispatched, mutex,
                    results, overall, calls, published, ret,
                    exit_codes, container_vars, peer >>

\* body_send as it would be if the result of a body that ends after the
\* deadline replaced the status already reported.
body_send_overwrite(idx, res, op) ==
    /\ idx \in 1..Len(threads)
    /\ threads[idx].state \in {"running", "abandoned"}
    /\ res \in tests[idx].test_fn.may
    /\ op \in tests[idx].test_fn.ops
    /\ threads' = [threads EXCEPT ![idx] =
          IF threads[idx].state = "running"
          THEN [@ EXCEPT !.state = "sent",
                         !.msg = Some(<< res, ApplyOp(EmptyData, op, idx) >>)]
          ELSE [@ EXCEPT !.state = "late"]]
    /\ tests' = IF threads[idx].state = "abandoned"
                    /\ IsTerminal(tests[idx].status)
                 THEN [tests EXCEPT ![idx].status = final_status(caught(res))]
                 ELSE tests
    /\ UNCHANGED << registry, config, GLOBAL_SHARED_DATA, pc, hooks,
                    hi, shared_context, test_indices, dispatched, workers,
                    mutex, results, overall, events, calls, published, ret,
                    exit_codes, container_vars, peer >>

\* Lines 990-991: the body ends on its thread, with a result or a panic,
\* and the thread sends (result, worker_ctx).  Once the envelope has given
\* up waiting the receiver is gone and the message is dropped.
body_send(idx, res, op) ==
    /\ idx \in 1..Len(threads)
    /\ threads[idx].state \in {"running", "abandoned"}
    /\ res \in tests[idx].test_fn.may
    /\ op \in tests[idx].test_fn.ops
    /\ threads' = [threads EXCEPT ![idx] =
          IF threads[idx].state = "running"
          THEN [@ EXCEPT !.state = "sent",
                         !.msg = Some(<< res, ApplyOp(EmptyData, op, idx) >>)]
          ELSE [@ EXCEPT !.state = "late"]]
    /\ UNCHANGED << registry, config, GLOBAL_SHARED_DATA, pc, tests, hooks,
                    hi, shared_context, test_indices, dispatched, workers,
                    mutex, results, overall, events, calls, published, ret,
                    exit_codes, container_vars, peer >>

\* Lines 1027-1031: on Ok, the String values of the worker's context are
\* copied back into the envelope's context.
copy_back(data, worker_ctx) ==
    [k \in Keys |-> IF IsString(worker_ctx[k]) THEN worker_ctx[k]
                    ELSE data[k]]

\* Lines 995-1050: recv_timeout finds the message of the body's thread.
recv_result(w) ==
    /\ pc \in {"sequential", "parallel"}
    /\ workers[w].phase = "waiting"
    /\ threads[workers[w].idx].state = "sent"
    /\ LET res == threads[workers[w].idx].msg[1][1]
           worker_ctx == threads[workers[w].idx].msg[1][2] IN
       /\ workers' = [workers EXCEPT
             ![w].ctx = IF res = "ok" THEN copy_back(@, worker_ctx) ELSE @,
             ![w].body_set = worker_ctx,
             ![w].test_result = caught(res),
             ![w].k = 1,
             ![w].phase = after_body]
       /\ events' = [events EXCEPT ![workers[w].idx] =
                        Append(@, Event("recv", 0, res))]
    /\ threads' = [threads EXCEPT ![workers[w].idx] =
                      [@ EXCEPT !.state = "received", !.msg = None]]
    /\ UNCHANGED << registry, config, GLOBAL_SHARED_DATA, pc, tests, hooks,
                    hi, shared_context, test_indices, dispatched, mutex,
                    results, overall, calls, published, ret,
                    exit_codes, container_vars, peer >>

\* Lines 1051-1069: what run_test_with_timeout_enhanced returns when the
\* deadline has passed, under each strategy.
timed_out(timeout) == Err(Timeout(timeout))

\* recv_timeout as it would be if the envelope joined the body's thread
\* before it reported the timeout.
recv_timeout_join(w) ==
    /\ pc \in {"sequential", "parallel"}
    /\ workers[w].phase = "waiting"
    /\ threads[workers[w].idx].state = "late"
    /\ workers' = [workers EXCEPT
          ![w].test_result = timed_out(tests[workers[w].idx].timeout[1]),
          ![w].k = 1,
          ![w].phase = after_body]
    /\ threads' = [threads EXCEPT ![workers[w].idx].state = "abandoned"]
    /\ events' = [events EXCEPT ![workers[w].idx] =
                     Append(@, Event("deadline", 0, "-"))]
    /\ UNCHANGED << registry, config, GLOBAL_SHARED_DATA, pc, tests, hooks,
                    hi, shared_context, test_indices, dispatched, mutex,
                    results, overall, calls, published, ret,
                    exit_codes, container_vars, peer >>

\* Lines 995-1019, 1051-1069: the deadline passes with no message on the
\* channel; the result is Timeout(limit) under each strategy and the
\* body's thread is left running.
recv_timeout(w) ==
    /\ pc \in {"sequential", "parallel"}
    /\ workers[w].phase = "waiting"
    /\ threads[workers[w].idx].state = "running"
    /\ workers' = [workers EXCEPT
          ![w].test_result = timed_out(tests[workers[w].idx].timeout[1]),
          ![w].k = 1,
          ![w].phase = after_body]
    /\ threads' = [threads EXCEPT ![workers[w].idx].state = "abandoned"]
    /\ events' = [events EXCEPT ![workers[w].idx] =
                     Append(@, Event("deadline", 0, "-"))]
    /\ UNCHANGED << registry, config, GLOBAL_SHARED_DATA, pc, tests, hooks,
                    hi, shared_context, test_indices, dispatched, mutex,
                    results, overall, calls, published, ret,
                    exit_codes, container_vars, peer >>

\* -------------------------------------------------- sequential execution
\* Lines 635-698: the next index of test_indices, in order.
seq_dispatch ==
    /\ pc = "sequential"
    /\ workers[0].phase = "idle"
    /\ \E p \in 1..Len(test_indices) :
         /\ p \notin dispatched
         /\ \A q \in 1..(p - 1) : q \in dispatched
         /\ dispatched' = dispatched \cup {p}
         /\ LET idx == test_indices[p] IN
            IF skip_check(tests[idx])
              THEN /\ tests' = [tests EXCEPT ![idx].status = Skipped]
                   /\ overall' = [overall EXCEPT !.skipped = @ + 1]
                   /\ workers' = workers
              ELSE /\ tests' = [tests EXCEPT ![idx].status = Running]
                   /\ overall' = overall
                   /\ workers' = [workers EXCEPT ![0] = Dispatched(idx)]
    /\ UNCHANGED << registry, config, GLOBAL_SHARED_DATA, pc, hooks, hi,
                    shared_context, test_indices, mutex, results, events,
                    calls, published, ret, threads,
                    exit_codes, container_vars, peer >>

\* Lines 700-736: one iteration of the before_each loop.  A failure makes
\* the envelope return at once.
seq_before_each(res, op) ==
    /\ pc = "sequential"
    /\ workers[0].phase = "before_each"
    /\ LET k == workers[0].k
           idx == workers[0].idx
           m == mutex.before_each[k]
           r == hook_result(m, res) IN
       /\ res \in hooks.before_each[k].may
       /\ op \in hooks.before_each[k].ops
       /\ mutex' = IF m.poisoned THEN mutex
                   ELSE [mutex EXCEPT !.before_each[k] = unlock(m, res)]
       /\ events' = IF m.poisoned THEN events
                    ELSE [events EXCEPT ![idx] =
                             Append(@, Event("before_each", k, res))]
       /\ IF r = Ok
            THEN /\ workers' = [workers EXCEPT ![0] = BeforeEachOk(0, m, op)]
                 /\ UNCHANGED << tests, overall, threads,
                    exit_codes, container_vars, peer >>
            ELSE /\ workers' = [workers EXCEPT ![0] = BeforeEachErr(0)]
                 /\ tests' = [tests EXCEPT ![idx].status = Failed(r[2])]
                 /\ overall' = [overall EXCEPT !.failed = @ + 1]
    /\ UNCHANGED << registry, config, GLOBAL_SHARED_DATA, pc, hooks, hi,
                    shared_context, test_indices, dispatched, results,
                    calls, published, ret, threads,
                    exit_codes, container_vars, peer >>

\* Lines 747-779: one iteration of the after_each loop; the hook's result
\* is only logged.
seq_after_each(res, op) ==
    /\ pc = "sequential"
    /\ workers[0].phase = "after_each"
    /\ LET k == workers[0].k
           idx == workers[0].idx
           m == mutex.after_each[k] IN
       /\ res \in hooks.after_each[k].may
       /\ op \in hooks.after_each[k].ops
       /\ mutex' = IF m.poisoned THEN mutex
                   ELSE [mutex EXCEPT !.after_each[k] = unlock(m, res)]
       /\ events' = IF m.poisoned THEN events
                    ELSE [events EXCEPT ![idx] =
                             Append(@, Event("after_each", k, "-"))]
       /\ workers' = [workers EXCEPT ![0] = AfterEachDone(0, m, op)]
    /\ UNCHANGED << registry, config, GLOBAL_SHARED_DATA, pc, tests, hooks,
                    hi, shared_context, test_indices, dispatched, results,
                    overall, calls, published, ret, threads,
                    exit_codes, container_vars, peer >>

\* Lines 781-799: the status is written in place.
seq_finish ==
    /\ pc = "sequential"
    /\ workers[0].phase = "finish"
    /\ tests' = [tests EXCEPT ![workers[0].idx].status =
                    final_status(workers[0].test_result)]
    /\ overall' = IF workers[0].test_result = Ok THEN overall
                  ELSE [overall EXCEPT !.failed = @ + 1]
    /\ workers' = [workers EXCEPT ![0] = IdleWorker]
    /\ UNCHANGED << registry, config, GLOBAL_SHARED_DATA, pc, hooks, hi,
                    shared_context, test_indices, dispatched, mutex,
                    results, events, calls, published, ret, threads,
                    exit_codes, container_vars, peer >>

\* Lines 635-647: the loop over test_indices is over.
seq_done ==
    /\ pc = "sequential"
    /\ workers[0].phase = "idle"
    /\ dispatched = 1..Len(test_indices)
    /\ pc' = "after_all"
    /\ hi' = 1
    /\ UNCHANGED << registry, config, GLOBAL_SHARED_DATA, tests, hooks,
                    shared_context, test_indices, dispatched, workers,
                    mutex, results, overall, events, calls, published, ret, threads,
                    exit_codes, container_vars, peer >>

\* ---------------------------------------------------- parallel execution
\* par_dispatch as it would be if a thread of the pool took a further
\* index while it is still running a test.
par_dispatch_busy(w) ==
    /\ pc = "parallel"
    /\ w \in 1..max_workers
    /\ \E p \in 1..Len(test_indices) :
         /\ p \notin dispatched
         /\ dispatched' = dispatched \cup {p}
         /\ LET idx == test_indices[p] IN
            IF skip_check(tests[idx])
              THEN /\ results' = results \cup {<< idx, Skipped >>}
                   /\ workers' = workers
              ELSE /\ results' = results
                   /\ workers' = [workers EXCEPT ![w] = Dispatched(idx)]
    /\ UNCHANGED << registry, config, GLOBAL_SHARED_DATA, pc, tests, hooks,
                    hi, shared_context, test_indices, mutex, overall,
                    events, calls, published, ret, threads,
                    exit_codes, container_vars, peer >>

\* Lines 581-610: a thread of the pool takes one of the remaining indices.
par_dispatch(w) ==
    /\ pc = "parallel"
    /\ w \in 1..max_workers
    /\ workers[w].phase = "idle"
    /\ \E p \in 1..Len(test_indices) :
         /\ p \notin dispatched
         /\ dispatched' = dispatched \cup {p}
         /\ LET idx == test_indices[p] IN
            IF skip_check(tests[idx])
              THEN /\ results' = results \cup {<< idx, Skipped >>}
                   /\ workers' = workers
              ELSE /\ results' = results
                   /\ workers' = [workers EXCEPT ![w] = Dispatched(idx)]
    /\ UNCHANGED << registry, config, GLOBAL_SHARED_DATA, pc, tests, hooks,
                    hi, shared_context, test_indices, mutex, overall,
                    events, calls, published, ret, threads,
                    exit_codes, container_vars, peer >>

\* The position of a worker that holds the mutex of the hook it is at.
locked(list) ==
    IF list = "before_each" THEN "before_each_locked" ELSE "after_each_locked"

\* par_lock as it would be if the hooks were not behind a mutex: the
\* worker goes on whether or not another worker is inside the hook.
par_lock_no_wait(w, list) ==
    /\ pc = "parallel"
    /\ w \in 1..max_workers
    /\ workers[w].phase = list
    /\ mutex' = [mutex EXCEPT ![list][workers[w].k].holder = w]
    /\ workers' = [workers EXCEPT ![w].phase = locked(list)]
    /\ UNCHANGED << registry, config, GLOBAL_SHARED_DATA, pc, tests, hooks,
                    hi, shared_context, test_indices, dispatched, results,
                    overall, events, calls, published, ret, threads,
                    exit_codes, container_vars, peer >>

\* Line 849 / 902: hook.lock() blocks until the mutex is free.
par_lock(w, list) ==
    /\ pc = "parallel"
    /\ w \in 1..max_workers
    /\ workers[w].phase = list
    /\ mutex[list][workers[w].k].holder = -1
    /\ mutex' = [mutex EXCEPT ![list][workers[w].k].holder = w]
    /\ workers' = [workers EXCEPT ![w].phase = locked(list)]
    /\ UNCHANGED << registry, config, GLOBAL_SHARED_DATA, pc, tests, hooks,
                    hi, shared_context, test_indices, dispatched, results,
                    overall, events, calls, published, ret, threads,
                    exit_codes, container_vars, peer >>

\* Lines 844-878: one before_each hook, called with its mutex held.
par_before_each(w, res, op) ==
    /\ pc = "parallel"
    /\ w \in 1..max_workers
    /\ workers[w].phase = locked("before_each")
    /\ LET k == workers[w].k
           idx == workers[w].idx
           m == mutex.before_each[k]
           r == hook_result(m, res) IN
       /\ res \in hooks.before_each[k].may
       /\ op \in hooks.before_each[k].ops
       /\ mutex' = [mutex EXCEPT !.before_each[k] = unlock(m, res)]
       /\ events' = IF m.poisoned THEN events
                    ELSE [events EXCEPT ![idx] =
                             Append(@, Event("before_each", k, res))]
       /\ IF r = Ok
            THEN /\ workers' = [workers EXCEPT ![w] = BeforeEachOk(w, m, op)]
                 /\ results' = results
            ELSE /\ workers' = [workers EXCEPT ![w] = BeforeEachErr(w)]
                 /\ results' = results \cup {<< idx, Failed(r[2]) >>}
    /\ UNCHANGED << registry, config, GLOBAL_SHARED_DATA, pc, tests, hooks,
                    hi, shared_context, test_indices, dispatched, overall,
                    calls, published, ret, threads,
                    exit_codes, container_vars, peer >>

\* Lines 897-929: one after_each hook, called with its mutex held.
par_after_each(w, res, op) ==
    /\ pc = "parallel"
    /\ w \in 1..max_workers
    /\ workers[w].phase = locked("after_each")
    /\ LET k == workers[w].k
           idx == workers[w].idx
           m == mutex.after_each[k] IN
       /\ res \in hooks.after_each[k].may
       /\ op \in hooks.after_each[k].ops
       /\ mutex' = [mutex EXCEPT !.after_each[k] = unlock(m, res)]
       /\ events' = IF m.poisoned THEN events
                    ELSE [events EXCEPT ![idx] =
                             Append(@, Event("after_each", k, "-"))]
       /\ workers' = [workers EXCEPT ![w] = AfterEachDone(w, m, op)]
    /\ UNCHANGED << registry, config, GLOBAL_SHARED_DATA, pc, tests, hooks,
                    hi, shared_context, test_indices, dispatched, results,
                    overall, calls, published, ret, threads,
                    exit_codes, container_vars, peer >>

\* Lines 931-948 and 608: the envelope returns (idx, test).
par_finish(w) ==
    /\ pc = "parallel"
    /\ w \in 1..max_workers
    /\ workers[w].phase = "finish"
    /\ results' = results \cup
          {<< workers[w].idx, final_status(workers[w].test_result) >>}
    /\ workers' = [workers EXCEPT ![w] = IdleWorker]
    /\ UNCHANGED << registry, config, GLOBAL_SHARED_DATA, pc, tests, hooks,
                    hi, shared_context, test_indices, dispatched, mutex,
                    overall, events, calls, published, ret, threads,
                    exit_codes, container_vars, peer >>

\* Lines 612-622: every index was run; write the results back and count.
par_collect ==
    /\ pc = "parallel"
    /\ dispatched = 1..Len(test_indices)
    /\ \A w \in Workers : workers[w].phase = "idle"
    /\ tests' = [i \in 1..Len(tests) |->
                   IF \E r \in results : r[1] = i
                   THEN [tests[i] EXCEPT !.status =
                           (CHOOSE r \in results : r[1] = i)[2]]
                   ELSE tests[i]]
    /\ overall' =
         [failed  |-> overall.failed +
                      Cardinality({r \in results : IsFailed(r[2])}),
          skipped |-> overall.skipped +
                      Cardinality({r \in results : r[2] = Skipped})]
    /\ pc' = "after_all"
    /\ hi' = 1
    /\ UNCHANGED << registry, config, GLOBAL_SHARED_DATA, hooks,
                    shared_context, test_indices, dispatched, workers,
                    mutex, results, events, calls, published, ret, threads,
                    exit_codes, container_vars, peer >>

\* ------------------------------------------------------ after_all, summary
\* The after_all block is entered (line 413).
runs_after_all == ~skip_hooks /\ hooks.after_all # << >>

\* Lines 417-446: one iteration of the after_all loop; failures are logged.
after_all_hook(res, op) ==
    /\ pc = "after_all"
    /\ runs_after_all
    /\ hi <= Len(hooks.after_all)
    /\ res \in hooks.after_all[hi].may
    /\ op \in hooks.after_all[hi].ops
    /\ calls' = Append(calls, Event("after_all", hi, "-"))
    /\ shared_context' = ApplyOp(shared_context, op, 0)
    /\ hi' = hi + 1
    /\ UNCHANGED << registry, config, GLOBAL_SHARED_DATA, pc, tests, hooks,
                    test_indices, dispatched, workers, mutex, results,
                    overall, events, published, ret, threads,
                    exit_codes, container_vars, peer >>

\* failed_count as it would be if every status other than Passed counted
\* as a failure.
failed_count_not_passed(ts) ==
    Cardinality({i \in 1..Len(ts) : ts[i].status # Passed})

\* Line 455: the number of tests whose status is Failed.
failed_count(ts) == Cardinality({i \in 1..Len(ts) : IsFailed(ts[i].status)})

\* Lines 451-490: count, report and return.
summary ==
    /\ pc = "after_all"
    /\ runs_after_all => hi > Len(hooks.after_all)
    /\ ret' = Some(IF failed_count(tests) > 0 THEN 1 ELSE 0)
    /\ pc' = "returned"
    /\ UNCHANGED << registry, config, GLOBAL_SHARED_DATA, tests, hooks, hi,
                    shared_context, test_indices, dispatched, workers,
                    mutex, results, overall, events, calls, published, threads,
                    exit_codes, container_vars, peer >>

\* ------------------------------------------------------------- containers
\* ContainerConfig::new(..).port(h, c)..auto_port(c)..no_auto_cleanup():
\* the fields that start and stop read.
ContainerConfig(ports, auto_ports, auto_cleanup) ==
    [ports |-> ports, auto_ports |-> auto_ports, auto_cleanup |-> auto_cleanup]

\* Configs with ports, which are left to run.
PortConfigs ==
  LET \* Container ports given to auto_port; 80 and 1080 are equal modulo 1000.
      AutoPorts == {80, 1080}
      \* Lists of up to MaxAuto different auto ports.
      AutoLists ==
          { a \in SeqUpTo(AutoPorts, MaxAuto) :
              \A i, j \in 1..Len(a) : i # j => a[i] # a[j] }
      \* Declared (host_port, container_port) pairs.
      ManualPorts == { << >>, << << 8080, 80 >>, << 8443, 443 >> >> }
  IN
    { ContainerConfig(p, a, FALSE) : p \in ManualPorts, a \in AutoLists }

\* Configs of containers that are stopped or cleaned up.
CleanupConfigs ==
    { ContainerConfig(<< >>, a, c) :
        a \in {<< >>, << 80 >>}, c \in BOOLEAN }

\* Threads that may be inside start at the same time.
Callers == 1..2

\* u16
U16 == 65536

\* Line 1867: 10000 + (container_port % 1000), in u16.
mock_host_port(container_port) == (10000 + (container_port % 1000)) % U16

\* format!("http://localhost:{}", host_port)
format_url(host_port) == << "http://localhost:", host_port >>

\* all_port_mappings with the auto pairs put in front of the declared ones.
all_port_mappings_auto_first(cfg, auto_port_mappings) ==
    auto_port_mappings \o cfg.ports

\* Lines 1811-1812 / 1861-1870: the declared pairs, then the auto pairs.
all_port_mappings(cfg, auto_port_mappings) ==
    cfg.ports \o auto_port_mappings

\* Lines 1814-1825 / 1872-1883: the ContainerInfo that start returns.
ContainerInfo(id, cfg, auto_port_mappings) ==
    LET all == all_port_mappings(cfg, auto_port_mappings) IN
    [container_id |-> id,
     urls |-> [i \in 1..Len(all) |-> format_url(all[i][1])],
     port_mappings |-> all,
     auto_cleanup |-> cfg.auto_cleanup]

\* Lines 1755-1777: port_bindings is a map keyed by the container port, so
\* of two pairs with the same container port the later one is bound.
port_bindings(pairs) ==
    [cp \in {pairs[i][2] : i \in 1..Len(pairs)} |->
        LET last == CHOOSE i \in 1..Len(pairs) :
                       /\ pairs[i][2] = cp
                       /\ \A j \in (i + 1)..Len(pairs) : pairs[j][2] # cp
        IN  pairs[last][1]]

\* Host ports held by the running containers.
HostPortsInUse == UNION {c.host_ports : c \in daemon}

RunningIds == {c.id : c \in daemon}

\* Lines 1726-1733: bind 127.0.0.1:0, read the port, drop the listener.
\* Any ephemeral port that is free at that moment can be the answer, and
\* it is free again when the function returns.
find_available_port ==
  LET \* Host ports the operating system hands out for a bind to port 0.
      EphemeralPorts == {32768, 32769}
  IN                   EphemeralPorts \ HostPortsInUse

\* The id of the next container (a fresh uuid prefix or daemon id).
next_id == Len(infos) + 1

\* Lines 32-37.
register_container_for_cleanup(reg, id) == Append(reg, id)

\* Lines 1751-1777 (feature "docker"): start resolves a host port for each
\* auto port, one after the other.
start_auto_ports(c, cfg, picks) ==
    /\ build = "docker"
    /\ in_flight[c] = None
    /\ cleaners[c].pending = << >>
    /\ Len(infos) < MaxStarts
    /\ in_flight' = [in_flight EXCEPT ![c] =
          Some([cfg |-> cfg,
                auto_port_mappings |->
                    [i \in 1..Len(cfg.auto_ports) |->
                        << picks[i], cfg.auto_ports[i] >>]])]
    /\ UNCHANGED << harness_vars, peer, build, CONTAINER_REGISTRY, daemon, infos,
                    last_stop, cleaners >>

\* Lines 1779-1849 (feature "docker"): the container is created and
\* started; the daemon refuses to start it when it cannot be reached or
\* when a host port to bind is held by a running container or is to be
\* bound twice.  When the readiness loop then times out ("not_ready",
\* lines 1807 and 1998-2000) start returns the error: the container keeps
\* running and its id, which the caller never sees (the model numbers
\* such ids -1, -2, ...), is not registered.  A container that became
\* ready is registered for cleanup when auto_cleanup is set.
start_container(c, reply) ==
    /\ build = "docker"
    /\ in_flight[c] # None
    /\ Len(infos) < MaxStarts
    /\ LET call == in_flight[c][1]
           all == all_port_mappings(call.cfg, call.auto_port_mappings)
           bind == port_bindings(all)
           hosts == {bind[cp] : cp \in DOMAIN bind}
           lost == {d \in daemon : d.id < 0}
           running == /\ reply \in {"ok", "not_ready"}
                      /\ hosts \cap HostPortsInUse = {}
                      /\ \A cp, cq \in DOMAIN bind :
                             cp # cq => bind[cp] # bind[cq]
       IN  /\ reply = "not_ready" => Len(infos) + Cardinality(lost) < MaxStarts
           /\ IF running /\ reply = "ok"
               THEN /\ infos' = Append(infos,
                          [cfg |-> call.cfg,
                           info |-> ContainerInfo(next_id, call.cfg,
                                                  call.auto_port_mappings)])
                    /\ daemon' = daemon \cup
                          {[id |-> next_id, host_ports |-> hosts]}
                    /\ CONTAINER_REGISTRY' =
                          IF call.cfg.auto_cleanup
                          THEN register_container_for_cleanup(CONTAINER_REGISTRY,
                                                              next_id)
                          ELSE CONTAINER_REGISTRY
               ELSE IF running
               THEN /\ daemon' = daemon \cup
                          {[id |-> -(Cardinality(lost) + 1),
                            host_ports |-> hosts]}
                    /\ UNCHANGED << infos, CONTAINER_REGISTRY >>
               ELSE UNCHANGED << infos, daemon, CONTAINER_REGISTRY >>
    /\ in_flight' = [in_flight EXCEPT ![c] = None]
    /\ UNCHANGED << harness_vars, peer, build, last_stop, cleaners >>

\* Lines 1852-1894 (without the feature): the mocked start.  It binds
\* nothing and registers nothing.
start_mock(cfg) ==
    /\ build = "mock"
    /\ Len(infos) < MaxStarts
    /\ infos' = Append(infos,
          [cfg |-> cfg,
           info |-> ContainerInfo(next_id, cfg,
                       [i \in 1..Len(cfg.auto_ports) |->
                           << mock_host_port(cfg.auto_ports[i]),
                              cfg.auto_ports[i] >>])])
    /\ UNCHANGED << harness_vars, peer, build, CONTAINER_REGISTRY, daemon,
                    in_flight, last_stop, cleaners >>

\* What the daemon may do with a call of stop: it cannot be reached
\* ("unreachable"), it stops and removes the container or reports that
\* there is none ("ok"), or it does not answer in time ("timeout").
StopReplies == {"ok", "timeout", "unreachable"}

\* Lines 1898-1987: what stop returns.  Only a failed connection is an
\* error; the mocked stop always succeeds.
stop_result(reply) ==
  LET \* Lines 1916-1918: the error of a failed connection.
      ConnectMsg == "Failed to connect to Docker"
  IN
    IF build = "docker" /\ reply = "unreachable"
    THEN Err(Message(ConnectMsg)) ELSE Ok

\* stop_effect as it would be if stop only asked the daemon whether the
\* container exists.
stop_effect_none(d, id, reply) == d

\* Lines 1921-1963: the containers that run after stop(id).
stop_effect(d, id, reply) ==
    IF build = "docker" /\ reply = "ok" THEN {c \in d : c.id # id} ELSE d

\* The record of one call of stop.
StopCall(id, reply, d) ==
    [id |-> id, reply |-> reply, result |-> stop_result(reply),
     existed |-> \E c \in d : c.id = id,
     again |-> last_stop # None /\ last_stop[1].id = id]

\* Lines 1898-1987: config.stop(container_id), with an id that start has
\* returned or with the id 0, which no container has.
stop(id, reply) ==
    /\ id <= Len(infos)
    /\ build = "mock" => reply = "ok"
    /\ daemon' = stop_effect(daemon, id, reply)
    /\ last_stop' = Some(StopCall(id, reply, daemon))
    /\ UNCHANGED << harness_vars, peer, build, CONTAINER_REGISTRY, in_flight,
                    infos, cleaners >>

\* cleanup_stop as it would be if a stop that fails or panics ended the
\* loop over the drained ids.
cleanup_stop_until_failure(c, reply) ==
    /\ cleaners[c].pending # << >>
    /\ build = "mock" => reply = "ok"
    /\ LET id == Head(cleaners[c].pending) IN
       /\ daemon' = stop_effect(daemon, id, reply)
       /\ last_stop' = IF reply = "panic" THEN last_stop
                       ELSE Some(StopCall(id, reply, daemon))
       /\ cleaners' = [cleaners EXCEPT
             ![c].pending = IF reply = "ok" THEN Tail(@) ELSE << >>,
             ![c].stopped = Append(@, id)]
    /\ UNCHANGED << harness_vars, peer, build, CONTAINER_REGISTRY, in_flight,
                    infos >>

\* Lines 46-65: one iteration of the loop over the drained ids, run
\* without the registry lock: config.stop(&container_id) under
\* catch_unwind.  What stop returns is only logged, and so is a panic
\* inside it ("panic"); the loop goes on with the next id.
cleanup_stop(c, reply) ==
    /\ cleaners[c].pending # << >>
    /\ build = "mock" => reply = "ok"
    /\ LET id == Head(cleaners[c].pending) IN
       /\ daemon' = stop_effect(daemon, id, reply)
       /\ last_stop' = IF reply = "panic" THEN last_stop
                       ELSE Some(StopCall(id, reply, daemon))
       /\ cleaners' = [cleaners EXCEPT
             ![c].pending = Tail(@),
             ![c].stopped = Append(@, id)]
    /\ UNCHANGED << harness_vars, peer, build, CONTAINER_REGISTRY, in_flight,
                    infos >>

\* Lines 39-43: thread c calls cleanup_all_containers; with the registry
\* lock held it drains the registry into a local list and drops the lock.
cleanup_all_containers(c) ==
    /\ cleaners[c].pending = << >>
    /\ in_flight[c] = None
    /\ cleaners' = [cleaners EXCEPT ![c].pending = CONTAINER_REGISTRY]
    /\ CONTAINER_REGISTRY' = << >>
    /\ UNCHANGED << harness_vars, peer, build, daemon, in_flight, infos,
                    last_stop >>

\* No container was started.
NoContainers ==
    /\ CONTAINER_REGISTRY = << >>
    /\ daemon = {}
    /\ in_flight = [c \in Callers |-> None]
    /\ infos = << >>
    /\ last_stop = None
    /\ cleaners = [c \in Callers |-> [pending |-> << >>, stopped |-> << >>]]

\* ------------------------------------------------------------ further runs
\* Lines 263-272: test(name, f) between two runs pushes a test whose body
\* passes.
test ==
    /\ pc = "start"
    /\ exit_codes # << >>
    /\ registry.tests = << >>
    /\ registry' = [registry EXCEPT !.tests =
                       << TestCase(<< "a" >>, << >>, None, Quiet) >>]
    /\ UNCHANGED << config, GLOBAL_SHARED_DATA, pc, tests, hooks, hi,
                    shared_context, test_indices, dispatched, workers,
                    mutex, results, overall, events, calls, published, ret,
                    threads, exit_codes, container_vars, peer >>

\* run_tests_with_config was called and has returned; the thread is about
\* to call it again with the same config.  The locals of the call that
\* returned are gone.
run_again ==
    /\ pc = "returned"
    /\ Len(exit_codes) + 1 < MaxRuns
    /\ exit_codes' = Append(exit_codes, ret[1])
    /\ pc' = "start"
    /\ tests' = << >>
    /\ hooks' = EmptyRegistry
    /\ hi' = 1
    /\ shared_context' = EmptyData
    /\ test_indices' = << >>
    /\ dispatched' = {}
    /\ workers' = [w \in Workers |-> IdleWorker]
    /\ mutex' = [before_each |-> << >>, after_each |-> << >>]
    /\ results' = {}
    /\ overall' = [failed |-> 0, skipped |-> 0]
    /\ events' = << >>
    /\ calls' = << >>
    /\ published' = EmptyData
    /\ ret' = None
    /\ threads' = << >>
    /\ UNCHANGED << registry, config, GLOBAL_SHARED_DATA, container_vars, peer >>

\* ------------------------------------------------------------ other threads
\* Lines 231-300 on the second thread: before_all, before_each, after_each,
\* after_all or test push onto that thread's own list.  Its tests are
\* named "p" and its hooks write a value that is not a String.
peer_register(list) ==
    /\ Len(peer.registry[list]) < (IF list = "tests" THEN MaxTests ELSE 1)
    /\ peer' = [peer EXCEPT !.registry[list] =
          Append(@, IF list = "tests"
                    THEN TestCase(<< "p" >>, << >>, None, Quiet)
                    ELSE Closure({"ok"}, {SetOp("k", "Other")}))]
    /\ UNCHANGED << harness_vars, container_vars >>

\* Lines 83-90: clear_test_registry empties the five lists of the thread
\* that calls it ("own": the thread of the run, between two runs).
clear_test_registry(t) ==
    /\ t = "own" => pc \in {"start", "returned"}
    /\ registry' = IF t = "own" THEN EmptyRegistry ELSE registry
    /\ peer' = IF t = "peer" THEN [peer EXCEPT !.registry = EmptyRegistry]
                ELSE peer
    /\ UNCHANGED << config, GLOBAL_SHARED_DATA, pc, tests, hooks, hi,
                    shared_context, test_indices, dispatched, workers,
                    mutex, results, overall, events, calls, published, ret,
                    threads, exit_codes, container_vars >>

\* peer_run as it would be if the five lists were statics of the process:
\* the second thread's run takes what the first thread registered too.
peer_run_process_wide ==
    /\ peer' = [registry |-> EmptyRegistry,
                ran |-> Some(registry.tests \o peer.registry.tests)]
    /\ registry' = EmptyRegistry
    /\ GLOBAL_SHARED_DATA' =
          IF peer.registry.tests # << >> /\ peer.registry.before_all # << >>
          THEN publish(GLOBAL_SHARED_DATA,
                       ApplyOp(EmptyData, SetOp("k", "Other"), 0))
          ELSE GLOBAL_SHARED_DATA
    /\ UNCHANGED << config, pc, tests, hooks, hi,
                    shared_context, test_indices, dispatched, workers,
                    mutex, results, overall, events, calls, published, ret,
                    threads, exit_codes, container_vars >>

\* Lines 310-491 on the second thread, with the default config: the run
\* drains that thread's five lists (lines 316-320) and runs the tests it
\* found; when there are tests and before_all hooks, the global map is
\* cleared and filled with the String values of the shared context
\* (lines 366-378).
peer_run ==
    /\ peer' = [registry |-> EmptyRegistry, ran |-> Some(peer.registry.tests)]
    /\ registry' = registry
    /\ GLOBAL_SHARED_DATA' =
          IF peer.registry.tests # << >> /\ peer.registry.before_all # << >>
          THEN publish(GLOBAL_SHARED_DATA,
                       ApplyOp(EmptyData, SetOp("k", "Other"), 0))
          ELSE GLOBAL_SHARED_DATA
    /\ UNCHANGED << config, pc, tests, hooks, hi,
                    shared_context, test_indices, dispatched, workers,
                    mutex, results, overall, events, calls, published, ret,
                    threads, exit_codes, container_vars >>

\* ------------------------------------------------------------ specification
Init ==
  LET \* A container without ports was started with auto_cleanup by the build
      \* with the feature "docker" and is still running.
      RegisteredContainer ==
          LET cfg == ContainerConfig(<< >>, << >>, TRUE) IN
          /\ CONTAINER_REGISTRY = << 1 >>
          /\ daemon = {[id |-> 1, host_ports |-> {}]}
          /\ in_flight = [c \in Callers |-> None]
          /\ infos = << [cfg |-> cfg, info |-> ContainerInfo(1, cfg, << >>)] >>
          /\ last_stop = None
          /\ cleaners = [c \in Callers |-> [pending |-> << >>, stopped |-> << >>]]
      \* Runs that begin while a container is registered for cleanup: tests
      \* that pass or fail, one hook per list, sequentially and on the pool.
      CleanupRuns ==
          { << Registry(ts, Hooks(Quiet, 1), Hooks(Quiet, 1), Hooks(Quiet, 1),
                        Hooks(Quiet, 1)),
               TestConfig(None, << >>, mc, None), EmptyData >> :
              ts \in SeqUpTo({TestCase(<< "a" >>, << >>, None,
                                       Closure({"ok", "err"}, {NoOp}))}, MaxTests),
              mc \in {Some(1), None} }
  IN
    \/ /\ \E run \in Runs : InitRun(run[1], run[2], run[3])
       /\ build = "mock"
       /\ NoContainers
    \/ /\ \E run \in CleanupRuns : InitRun(run[1], run[2], run[3])
       /\ build = "docker"
       /\ RegisteredContainer

Next ==
    \/ run_drain
    \/ \E res \in Results, op \in CtxOps : before_all_hook(res, op)
    \/ filter_step
    \/ seq_dispatch
    \/ \E res \in Results, op \in CtxOps : seq_before_each(res, op)
    \/ \E w \in Workers, res \in Results, op \in CtxOps : run_test(w, res, op)
    \/ \E w \in Workers : spawn_body(w)
    \/ \E idx \in 1..Len(threads), res \in Results, op \in CtxOps :
          body_send(idx, res, op)
    \/ \E w \in Workers : recv_result(w)
    \/ \E w \in Workers : recv_timeout(w)
    \/ \E res \in Results, op \in CtxOps : seq_after_each(res, op)
    \/ seq_finish
    \/ seq_done
    \/ \E w \in Workers : par_dispatch(w)
    \/ \E w \in Workers : par_lock(w, "before_each")
    \/ \E w \in Workers : par_lock(w, "after_each")
    \/ \E w \in Workers, res \in Results, op \in CtxOps : par_before_each(w, res, op)
    \/ \E w \in Workers, res \in Results, op \in CtxOps : par_after_each(w, res, op)
    \/ \E w \in Workers : par_finish(w)
    \/ par_collect
    \/ \E res \in Results, op \in CtxOps : after_all_hook(res, op)
    \/ summary
    \/ run_again
    \/ test

Spec == Init /\ [][Next]_vars

\* The steps of the run itself: every step but the end of a body that has
\* a time limit, the registration of a test and a further call.
Engine ==
    \/ run_drain
    \/ \E res \in Results, op \in CtxOps : before_all_hook(res, op)
    \/ filter_step
    \/ seq_dispatch
    \/ \E res \in Results, op \in CtxOps : seq_before_each(res, op)
    \/ \E w \in Workers, res \in Results, op \in CtxOps : run_test(w, res, op)
    \/ \E w \in Workers : spawn_body(w)
    \/ \E w \in Workers : recv_result(w)
    \/ \E w \in Workers : recv_timeout(w)
    \/ \E res \in Results, op \in CtxOps : seq_after_each(res, op)
    \/ seq_finish
    \/ seq_done
    \/ \E w \in Workers : par_dispatch(w)
    \/ \E w \in Workers : par_lock(w, "before_each")
    \/ \E w \in Workers : par_lock(w, "after_each")
    \/ \E w \in Workers, res \in Results, op \in CtxOps : par_before_each(w, res, op)
    \/ \E w \in Workers, res \in Results, op \in CtxOps : par_after_each(w, res, op)
    \/ \E w \in Workers : par_finish(w)
    \/ par_collect
    \/ \E res \in Results, op \in CtxOps : after_all_hook(res, op)
    \/ summary
LiveInit ==
  LET \* Runs in which bodies with a time limit may never end: tests with and
      \* without a limit, one hook in each of the four lists, sequentially and
      \* on the pool.
      BlockingRuns ==
          { << Registry(ts, Hooks(Quiet, 1), Hooks(Quiet, 1), Hooks(Quiet, 1),
                        Hooks(Quiet, 1)),
               TestConfig(None, << >>, mc, None), EmptyData >> :
              ts \in SeqUpTo({TestCase(<< "a" >>, << >>, to, Flaky) :
                                to \in Timeouts}, MaxTests),
              mc \in {Some(1), Some(MaxWorkers)} }
  IN
    /\ \E run \in BlockingRuns : InitRun(run[1], run[2], run[3])
    /\ build = "mock"
    /\ NoContainers

\* Every hook and every body without a time limit terminates, the threads
\* of the run are scheduled and a deadline passes after a finite time; the
\* body of a test with a time limit need never end.
LiveSpec == LiveInit /\ [][Next]_vars /\ WF_vars(Engine)

\* Two threads: the first registers tests and one hook per list and runs
\* them sequentially, twice; the second registers, clears and runs on its
\* own at any time.
ThreadInit ==
    /\ \E ts \in SeqUpTo({TestCase(<< "a" >>, << >>, None,
                                    Closure({"ok", "err"}, {NoOp}))}, MaxTests),
          nh \in 0..1 :
          InitRun(Registry(ts, Hooks(Quiet, nh), Hooks(Quiet, nh),
                           Hooks(Quiet, nh), Hooks(Quiet, nh)),
                  TestConfig(None, << >>, Some(1), None), EmptyData)
    /\ build = "mock"
    /\ NoContainers

ThreadNext ==
    \/ run_drain
    \/ \E res \in Results, op \in CtxOps : before_all_hook(res, op)
    \/ filter_step
    \/ seq_dispatch
    \/ \E res \in Results, op \in CtxOps : seq_before_each(res, op)
    \/ \E res \in Results, op \in CtxOps : run_test(0, res, op)
    \/ \E res \in Results, op \in CtxOps : seq_after_each(res, op)
    \/ seq_finish
    \/ seq_done
    \/ \E res \in Results, op \in CtxOps : after_all_hook(res, op)
    \/ summary
    \/ run_again
    \/ test
    \/ \E t \in {"own", "peer"} : clear_test_registry(t)
    \/ \E list \in {"tests", "before_all", "before_each"} : peer_register(list)
    \/ peer_run

ThreadSpec == ThreadInit /\ [][ThreadNext]_vars

\* A process in which no run is under way and no container was started.
ContainerInit ==
  LET \* The two builds: with the feature "docker" start and stop talk to the
      \* Docker daemon, without it they are mocked.
      Builds == {"docker", "mock"}
  IN
    /\ InitRun(EmptyRegistry, TestConfig(None, << >>, None, None), EmptyData)
    /\ build \in Builds
    /\ NoContainers

\* Calls of start, one after the other or at the same time.
ContainerNext ==
    \/ \E c \in Callers, cfg \in PortConfigs :
          \E picks \in [1..Len(cfg.auto_ports) -> find_available_port] :
             start_auto_ports(c, cfg, picks)
    \/ \E c \in Callers, reply \in {"ok", "unreachable"} :
          start_container(c, reply)
    \/ \E cfg \in PortConfigs : start_mock(cfg)

ContainerSpec == ContainerInit /\ [][ContainerNext]_vars

\* Calls of start, stop and cleanup_all_containers.
CleanupNext ==
  LET \* Ids given to stop: those of the started containers and one that was
      \* never given out.
      StopIds == 0..MaxStarts
  IN
    \/ \E cfg \in CleanupConfigs :
          \E picks \in [1..Len(cfg.auto_ports) -> find_available_port] :
             start_auto_ports(1, cfg, picks)
    \/ \E reply \in {"ok", "unreachable"} :
          start_container(1, reply)
    \/ \E cfg \in CleanupConfigs : start_mock(cfg)
    \/ \E id \in StopIds, reply \in StopReplies : stop(id, reply)
    \/ cleanup_all_containers(1)
    \/ \E reply \in {"ok", "unreachable"} : cleanup_stop(1, reply)

CleanupSpec == ContainerInit /\ [][CleanupNext]_vars

\* Calls of start with auto_cleanup by the first thread, some of them
\* failing after the container was created, while both threads call
\* cleanup_all_containers, at any time and at the same time.
RaceNext ==
    \/ start_auto_ports(1, ContainerConfig(<< >>, << >>, TRUE), << >>)
    \/ \E reply \in {"ok", "unreachable", "not_ready"} : start_container(1, reply)
    \/ start_mock(ContainerConfig(<< >>, << >>, TRUE))
    \/ \E c \in Callers : cleanup_all_containers(c)
    \/ \E c \in Callers, reply \in StopReplies \cup {"panic"} :
          cleanup_stop(c, reply)

RaceSpec == ContainerInit /\ [][RaceNext]_vars

\* ============================================================= properties
\* The outcome of test idx as the run has it: in parallel mode the status
\* travels in `results` until it is written back.
Outcome(idx) ==
    IF \E r \in results : r[1] = idx
    THEN (CHOOSE r \in results : r[1] = idx)[2]
    ELSE tests[idx].status

Finished(idx) == Outcome(idx)[1] \in {"Passed", "Failed"}

TestIds == 1..Len(tests)

HooksOn == ~(IsSome(config.skip_hooks) /\ config.skip_hooks[1])

FailedTests == {i \in TestIds : tests[i].status[1] = "Failed"}

BeforeAllFailed ==
    \E i \in 1..Len(calls) : calls[i][1] = "before_all" /\ calls[i][3] # "ok"

\* Number of times hook h of the list `kind` appears in the log.
Times(log, kind, h) ==
    Cardinality({i \in 1..Len(log) : log[i][1] = kind /\ log[i][2] = h})

\* The failure kind a closure's result stands for.
KindOf(res) == IF res = "err" THEN Message(UserMsg) ELSE Panicked(PanicMsg)

\* Position of the failed before_each invocations in a test's log.
FailedBefore(ev) ==
    {i \in 1..Len(ev) : ev[i][1] = "before_each" /\ ev[i][3] # "ok"}

\* ---------------------------------------------------------------------- C1
\* C1 (as claimed): when run_tests_with_config has returned, the code is 0
\* if and only if no test is Failed, and 1 otherwise.
C1_ExitCodeIffNoFailed ==
    pc = "returned" => ret = Some(IF FailedTests = {} THEN 0 ELSE 1)

\* C1 (amended): the returned code is 1 when a before_all hook failed or
\* some test is Failed, and 0 otherwise; tests left Pending by the filters
\* or Skipped do not count.
C1_ExitCode ==
    pc = "returned" =>
        ret = Some(IF BeforeAllFailed \/ FailedTests # {} THEN 1 ELSE 0)

C1_Witness ==
    /\ pc = "returned"
    /\ ret = Some(1)
    /\ ~BeforeAllFailed
    /\ \E i \in TestIds : tests[i].status[1] = "Failed"
    /\ \E i \in TestIds : tests[i].status[1] \in {"Pending", "Skipped"}

\* ---------------------------------------------------------------------- C2
\* C2: panic containment.  Every test that was run ends with the outcome
\* that its own body and its own hook invocations determine (a panic of
\* its body or of one of its before_each hooks gives Failed(Panicked)); a
\* panic raised while another test was run does not change it.
C2_PanicContainment ==
  LET \* The outcome a test's own invocations determine: the failure of its
      \* first failed before_each hook, else the result its body delivered.
      OwnOutcome(idx) ==
          LET ev == events[idx]
              fb == FailedBefore(ev)
              done == {i \in 1..Len(ev) : /\ ev[i][1] \in {"body", "recv", "deadline"}
                                          /\ ev[i][3] # "spawned"}
          IN  IF fb # {} THEN Failed(KindOf(ev[CHOOSE i \in fb : TRUE][3]))
              ELSE IF done = {} THEN << "none" >>
              ELSE LET e == ev[CHOOSE i \in done : TRUE] IN
                   IF e[1] = "deadline" THEN Failed(Timeout(tests[idx].timeout[1]))
                   ELSE IF e[3] = "ok" THEN Passed
                   ELSE Failed(KindOf(e[3]))
  IN
    \A idx \in TestIds : Finished(idx) => Outcome(idx) = OwnOutcome(idx)

\* ---------------------------------------------------------------------- C3
\* C3: hook envelope.  With hooks enabled, a finished test whose body was
\* executed has had every before_each hook invoked successfully before the
\* body, in registration order, and every after_each hook invoked exactly
\* once after the body, in registration order.
C3_HookEnvelope ==
  LET IsEnvelopeEvent(e) == e[1] \in {"before_each", "body", "after_each"}
  IN
    \A idx \in TestIds :
        LET ev == SelectSeq(events[idx], IsEnvelopeEvent)
            n == Len(hooks.before_each)
            m == Len(hooks.after_each)
        IN  ( /\ HooksOn
              /\ Finished(idx)
              /\ \E i \in 1..Len(ev) : ev[i][1] = "body" )
            => /\ Len(ev) = n + 1 + m
               /\ \A k \in 1..n : ev[k] = Event("before_each", k, "ok")
               /\ ev[n + 1][1] = "body"
               /\ \A k \in 1..m : ev[n + 1 + k] = Event("after_each", k, "-")

C5_BeforeEachFailureStops ==
    \A idx \in TestIds :
        LET ev == events[idx] IN
        \A i \in FailedBefore(ev) :
            /\ ev[i][2] = i
            /\ \A j \in 1..(i - 1) : ev[j] = Event("before_each", j, "ok")
            /\ \A j \in (i + 1)..Len(ev) : ev[j][1] \notin {"before_each", "body"}
            /\ Outcome(idx) = IF ev[i][3] = "err" THEN Failed(Message(UserMsg))
                              ELSE Failed(Panicked(PanicMsg))

C5_Witness ==
    \E idx \in TestIds :
        /\ Len(hooks.before_each) >= 2
        /\ events[idx] = << Event("before_each", 1, "ok"),
                            Event("before_each", 2, "panic") >>
        /\ Outcome(idx) = Failed(Panicked(PanicMsg))

\* ---------------------------------------------------------------------- C6
\* C6: when a before_all hook fails or panics, the run has returned 1, the
\* failed hook is the last hook that was invoked, and no before_each hook,
\* test body or after_each hook was invoked.
C6_BeforeAllFailureAborts ==
    BeforeAllFailed =>
        /\ pc = "returned"
        /\ ret = Some(1)
        /\ calls[Len(calls)][3] # "ok"
        /\ \A i \in 1..(Len(calls) - 1) :
               calls[i][1] = "before_all" /\ calls[i][3] = "ok"
        /\ dispatched = {}
        /\ \A idx \in TestIds : events[idx] = << >> /\ tests[idx].status = Pending

C6_Witness ==
    /\ BeforeAllFailed
    /\ Len(calls) < Len(hooks.before_all)
    /\ hooks.before_each # << >>
    /\ hooks.after_each # << >>
    /\ tests # << >>

\* ---------------------------------------------------------------------- C7
\* C7: with hooks enabled and at least one registered test, every
\* registered after_all hook has been invoked exactly once when
\* run_tests_with_config has returned.
C7_AfterAllAlwaysRuns ==
    (pc = "returned" /\ HooksOn /\ Len(tests) >= 1)
    => \A h \in 1..Len(hooks.after_all) : Times(calls, "after_all", h) = 1

\* ---------------------------------------------------------------------- C8
BeforeAllCalls == SelectSeq(calls, LAMBDA e : e[1] = "before_all")
AfterAllCalls  == SelectSeq(calls, LAMBDA e : e[1] = "after_all")

SomeTestStarted == \E idx \in TestIds : events[idx] # << >>

\* after_all has started only after every dispatched test has finished.
AfterAllLast ==
    AfterAllCalls # << >> =>
        /\ pc \in {"after_all", "returned"}
        /\ calls = BeforeAllCalls \o AfterAllCalls
        /\ \A w \in Workers : workers[w].phase = "idle"
        /\ \A p \in 1..Len(test_indices) :
               p \in dispatched /\ IsTerminal(tests[test_indices[p]].status)

\* C8 (as claimed): in every run each before_all hook is invoked exactly
\* once, and that before the first before_each hook or test body starts;
\* after_all starts only after the last test has finished.
C8_LifecycleOrderingEveryRun ==
    /\ (SomeTestStarted \/ pc = "returned") =>
           \A h \in 1..Len(hooks.before_all) : Times(calls, "before_all", h) = 1
    /\ AfterAllLast

\* C8 (amended): in every run with hooks enabled, once a before_each hook
\* or a test body has started, each before_all hook has been invoked
\* exactly once and has returned Ok; after_all starts only after every
\* dispatched test has finished; within a test the order is before_each,
\* body, after_each.
C8_LifecycleOrdering ==
  LET \* The order within one envelope: before_each, then body, then after_each.
      EnvelopeOrdered(ev) ==
          \A i \in 1..Len(ev) : \A j \in (i + 1)..Len(ev) :
              /\ ev[i][1] = "after_each" => ev[j][1] = "after_each"
              /\ ev[i][1] \in {"body", "recv", "deadline"} => ev[j][1] # "before_each"
  IN
    /\ (HooksOn /\ SomeTestStarted) =>
           BeforeAllCalls = [h \in 1..Len(hooks.before_all) |->
                                Event("before_all", h, "ok")]
    /\ AfterAllLast
    /\ \A idx \in TestIds : EnvelopeOrdered(events[idx])

C8_Witness ==
    /\ pc = "returned"
    /\ Len(tests) = 1
    /\ calls = << Event("before_all", 1, "ok"), Event("after_all", 1, "-") >>
    /\ events[1] = << Event("before_each", 1, "ok"), Event("body", 0, "ok"),
                      Event("after_each", 1, "-") >>

\* ---------------------------------------------------------------------- C9
\* data holds every entry of the map `shared`.
ContainsAll(data, shared, except) ==
    \A k \in Keys \ except : shared[k] # Absent => data[k] = shared[k]

\* C9: shared-map snapshot.  The context given to the first before_each
\* hook, and the context the test body is entered with (apart from the
\* keys the before_each hooks wrote), holds every string the before_all
\* hooks had stored when before_all completed.
C9_SharedMapSnapshot ==
    \A w \in Workers :
        /\ (workers[w].phase \in {"before_each", "before_each_locked"}
            /\ workers[w].k = 1)
           => ContainsAll(workers[w].ctx, published, {})
        /\ workers[w].phase \in {"waiting", "after_each", "after_each_locked",
                                 "finish"}
           => ContainsAll(workers[w].entry, published, workers[w].touched)

\* --------------------------------------------------------------------- C10
\* Every value of a context was written for the test that owns the context
\* or comes from the shared map.
OwnOrShared(data, idx) ==
    \A k \in Keys : data[k] # Absent => data[k][2] \in {-1, 0, idx}

\* C10: context isolation.  No context ever holds a value written in the
\* context of another test, the shared map never holds a value written in
\* a test's context, and the shared map does not change while tests run.
C10_ContextIsolation ==
    /\ [](/\ \A w \in Workers :
                /\ OwnOrShared(workers[w].ctx, workers[w].idx)
                /\ OwnOrShared(workers[w].entry, workers[w].idx)
          /\ OwnOrShared(GLOBAL_SHARED_DATA, 0))
    /\ [][(pc \in {"sequential", "parallel"})
               => (GLOBAL_SHARED_DATA' = GLOBAL_SHARED_DATA)]_vars

C10_Witness ==
    \E w1 \in Workers, w2 \in Workers, k \in Keys :
        /\ w1 # w2
        /\ workers[w1].idx # 0 /\ workers[w2].idx # 0
        /\ workers[w1].ctx[k] = Val("String", workers[w1].idx)
        /\ workers[w2].ctx[k] = Val("String", 0)
        /\ workers[w2].phase = "body"

\* --------------------------------------------------------------------- C11
\* C11: when the first after_each hook of a test is about to be called
\* after a body that delivered its result, the context it is given holds
\* every key the body set, with the body's value, whatever the type of
\* the value, the body's result and the test's time limit.
C11_AfterEachSeesBodyContext ==
    \A w \in Workers :
        (workers[w].phase \in {"after_each", "after_each_locked"}
         /\ workers[w].k = 1)
        => \A key \in Keys :
               workers[w].body_set[key] # Absent
               => workers[w].ctx[key] = workers[w].body_set[key]

\* --------------------------------------------------------------------- C12
TimedTests == {idx \in 1..Len(threads) : threads[idx].state # "none"}

\* C12: the strategy under which the body of a test with a time limit is
\* observed is the strategy of the run's config.
C12_StrategyFromConfig ==
    \A idx \in TimedTests :
        threads[idx].strategy = Some(config.timeout_config)

\* --------------------------------------------------------------------- C13
\* The body's thread delivered its message while the envelope was waiting.
DeliveredInTime(idx) == threads[idx].state = "received"

\* The result the envelope received from the body's thread.
Received(idx) ==
    LET ev == events[idx]
    IN  ev[CHOOSE i \in 1..Len(ev) : ev[i][1] = "recv"][3]

\* The body delivered its result within the limit of the test: nothing is
\* delivered within a limit of zero.
WithinLimit(idx) == tests[idx].timeout[1] > 0 /\ DeliveredInTime(idx)

\* C13: under Aggressive, a finished test with limit L is Failed(Timeout(L))
\* if and only if its body did not deliver a result or a panic within L;
\* a body that delivered within L makes the test Passed, Failed(Message)
\* or Failed(Panicked) according to what it delivered.
C13_TimeoutIffLimitExceeded ==
    \A idx \in TimedTests :
        (Finished(idx) /\ threads[idx].strategy = Some(Aggressive)) =>
            /\ Outcome(idx) = Failed(Timeout(tests[idx].timeout[1]))
                   <=> ~WithinLimit(idx)
            /\ WithinLimit(idx) =>
                   Outcome(idx) = IF Received(idx) = "ok" THEN Passed
                                  ELSE Failed(KindOf(Received(idx)))

\* --------------------------------------------------------------------- C14
\* C14: when the config names the Simple strategy, the after_each hooks of
\* a test with a time limit start, and its outcome is reported, only after
\* its body has ended.
C14_SimpleRunsToCompletion ==
  LET \* The body of test idx has ended.
      BodyEnded(idx) == threads[idx].state \in {"sent", "received", "late"}
  IN
    config.timeout_config = Simple =>
        \A idx \in TimedTests :
            (Finished(idx)
             \/ \E i \in 1..Len(events[idx]) : events[idx][i][1] = "after_each")
            => BodyEnded(idx)

\* --------------------------------------------------------------------- C15
\* C15: the body of a test with a time limit of zero is never observed to
\* complete, and the test ends Failed(Timeout(0)), never Passed.
C15_ZeroLimitAlwaysTimesOut ==
    \A idx \in TimedTests :
        tests[idx].timeout = Some(0) =>
            /\ ~DeliveredInTime(idx)
            /\ Finished(idx) => Outcome(idx) = Failed(Timeout(0))

\* --------------------------------------------------------------------- C16
\* The tests the config selects: the name has the filter as a substring
\* and no tag is one of the skip tags.
Selected ==
  LET \* f occurs in s: some window of s spells f (every s has the empty f).
      HasSubstring(s, f) ==
          \E i \in 0..(Len(s) - Len(f)) : \A j \in 1..Len(f) : s[i + j] = f[j]
  IN
    {idx \in TestIds :
        /\ IsSome(config.filter) =>
               HasSubstring(tests[idx].name, config.filter[1])
        /\ \A s \in 1..Len(config.skip_tags) :
           \A t \in 1..Len(tests[idx].tags) :
               tests[idx].tags[t] # config.skip_tags[s]}

\* Test idx was handed to an envelope.
WasDispatched(idx) ==
    \/ events[idx] # << >>
    \/ tests[idx].status # Pending
    \/ \E r \in results : r[1] = idx
    \/ \E w \in Workers : workers[w].idx = idx

\* No closure runs for a test that the config does not select.
OnlySelectedRun == \A idx \in TestIds : WasDispatched(idx) => idx \in Selected

\* C16 (as claimed): for every registry and config, the tests dispatched in
\* a run are exactly the tests the config selects.
C16_FilterSoundnessEveryRun ==
    /\ OnlySelectedRun
    /\ pc = "returned" => \A idx \in Selected : WasDispatched(idx)

\* C16 (amended): no test outside the selected set is dispatched or has a
\* closure invoked, and in a run in which no before_all hook failed every
\* selected test is dispatched.
C16_FilterSoundness ==
    /\ OnlySelectedRun
    /\ (pc = "returned" /\ ~BeforeAllFailed) =>
           \A idx \in Selected : WasDispatched(idx)

C16_Witness ==
    /\ pc = "returned"
    /\ config.filter = Some(<< "b" >>)
    /\ config.skip_tags = << "slow" >>
    /\ \E i \in Selected : tests[i].status = Passed
    /\ \E j \in TestIds : /\ tests[j].name = << "b", "a" >>
                          /\ tests[j].tags = << "slow" >>
                          /\ events[j] = << >>

\* --------------------------------------------------------------------- C17
\* C17: when the run has returned, every test that the filter or a skip
\* tag removed is Skipped.
C17_FilteredOutAreSkipped ==
    (pc = "returned" /\ ~BeforeAllFailed) =>
        \A idx \in TestIds \ Selected : tests[idx].status = Skipped

\* --------------------------------------------------------------------- C18
\* C18: when run_tests_with_config has returned, on whatever path, every
\* test that was not filtered out is Passed, Failed or Skipped.
C18_Terminality ==
    pc = "returned" =>
        \A idx \in Selected : IsTerminal(tests[idx].status)

\* --------------------------------------------------------------------- C19
\* The filter-and-order step has been carried out in this run.
OrderReturned == pc \notin {"start", "before_all"} /\ ~BeforeAllFailed

\* C19: the order of a run is a function of the seed, the filters and the
\* names and tags of the registered tests alone (neither the pool size, nor
\* the hooks, the bodies, the time limits or the shared map change it), and
\* a sequential run executes the tests in exactly that order.
C19_ShuffleDeterminism ==
  LET \* What two runs with the same registered test sequence and the same seed
      \* have in common: the names and tags of the tests in registration order,
      \* and the filter, the skip tags and the seed of the config.
      SameTests(ts) ==
          [i \in 1..Len(ts) |-> TestCase(ts[i].name, ts[i].tags, None, Quiet)]
      SameConfig(cfg) ==
          [TestConfig(cfg.filter, cfg.skip_tags, None, None)
              EXCEPT !.shuffle_seed = cfg.shuffle_seed]
      \* The positions of test_indices the sequential loop has gone through are
      \* an initial segment, and the envelope at work holds the last of them.
      InOrder ==
          LET n == Cardinality(dispatched) IN
          /\ dispatched = 1..n
          /\ workers[0].phase # "idle" => workers[0].idx = test_indices[n]
          /\ \A p \in 1..Len(test_indices) :
                 (p > n) => events[test_indices[p]] = << >>
  IN
    OrderReturned =>
        /\ test_indices = filter_and_sort_test_indices(SameTests(tests),
                                                       SameConfig(config))
        /\ ~is_parallel => InOrder

\* A sequential run with a seed whose order is not the registration order,
\* at work on the test that the order puts second.
C19_Witness ==
    /\ pc = "sequential"
    /\ IsSome(config.shuffle_seed)
    /\ Len(test_indices) = MaxShuffled
    /\ test_indices[1] > test_indices[2]
    /\ Cardinality(dispatched) = 2
    /\ workers[0].phase # "idle"
    /\ workers[0].idx = test_indices[2]

\* --------------------------------------------------------------------- C20
\* Number of times the body of idx was started.
BodyRuns(idx) == Len(SelectSeq(events[idx], LAMBDA e : e[1] = "body"))

\* C20: the order returned by the filter-and-order step, with or without a
\* seed, holds every index the filters retain exactly once and no other
\* index; when the run has returned every position of it was handed out,
\* and no body ran more than once (exactly once where no hook is
\* registered).
C20_ShuffleIsPermutation ==
  LET \* The positions of test_indices that hold idx.
      PositionsOf(idx) == {p \in 1..Len(test_indices) : test_indices[p] = idx}
  IN
    OrderReturned =>
        /\ \A idx \in TestIds :
               Cardinality(PositionsOf(idx)) =
                   IF idx \in Selected THEN 1 ELSE 0
        /\ \A p \in 1..Len(test_indices) : test_indices[p] \in TestIds
        /\ \A idx \in TestIds : BodyRuns(idx) <= 1
        /\ pc = "returned" =>
               /\ dispatched = 1..Len(test_indices)
               /\ hooks.before_each = << >> =>
                      \A idx \in Selected : BodyRuns(idx) = 1

\* A returned run with a seed and a name filter, in which the filter
\* dropped a test and the seed moved the retained ones.
C20_Witness ==
    /\ pc = "returned"
    /\ IsSome(config.shuffle_seed)
    /\ IsSome(config.filter)
    /\ Len(test_indices) = 2
    /\ Len(tests) = MaxShuffled
    /\ test_indices[1] > test_indices[2]
    /\ \A idx \in Selected : BodyRuns(idx) = 1

\* --------------------------------------------------------------------- C21
\* C21: from the drain on, and so at every return of run_tests_with_config
\* (no tests, before_all failure, nothing retained, normal completion), the
\* thread's test list and its four hook lists are empty; a further run
\* finds only what was registered since the last one, invokes no hook of
\* an earlier run, returns 0 when nothing was registered, and its exit
\* code is that of its own tests whatever the earlier run returned.
C21_RegistryDrain ==
    /\ pc # "start" => registry = EmptyRegistry
    /\ (pc # "start" /\ exit_codes # << >>) =>
           /\ hooks = EmptyRegistry
           /\ calls = << >>
           /\ Len(tests) <= 1
    /\ (pc = "returned" /\ exit_codes # << >>) =>
           /\ tests = << >> => ret = Some(0)
           /\ ret = Some(IF \E i \in TestIds : IsFailed(tests[i].status)
                         THEN 1 ELSE 0)

\* A run that returned 1 was followed by a run of one newly registered
\* test, which returned 0.
C21_Witness ==
    /\ pc = "returned"
    /\ exit_codes = << 1 >>
    /\ Len(tests) = 1
    /\ tests[1].status = Passed
    /\ ret = Some(0)

\* --------------------------------------------------------------------- C22
\* What the body of idx produced: the time limit when the deadline passed
\* first, otherwise what the body returned or the panic it raised.
BodyOutcome(idx) ==
    LET ev == events[idx]
        at(kind) == CHOOSE i \in 1..Len(ev) : ev[i][1] = kind
    IN  IF \E i \in 1..Len(ev) : ev[i][1] = "deadline"
        THEN Failed(Timeout(tests[idx].timeout[1]))
        ELSE LET res == IF tests[idx].timeout = None
                        THEN ev[at("body")][3] ELSE ev[at("recv")][3]
             IN  IF res = "ok" THEN Passed ELSE Failed(KindOf(res))

\* C22: in a run with skip_hooks set to true no hook of the four lists is
\* invoked, and when the run has returned the body of every retained test
\* was run once and the test has the outcome its body produced.
C22_SkipHooks ==
    skip_hooks =>
        /\ calls = << >>
        /\ \A idx \in TestIds : \A i \in 1..Len(events[idx]) :
               events[idx][i][1] \notin HookLists
        /\ pc = "returned" =>
               \A idx \in Selected :
                   BodyRuns(idx) = 1 /\ Outcome(idx) = BodyOutcome(idx)

\* A returned run with skip_hooks in which hooks of all four lists were
\* registered, one test passed and another failed.
C22_Witness ==
    /\ skip_hooks
    /\ pc = "returned"
    /\ \A l \in HookLists : hooks[l] # << >>
    /\ \E i, j \in TestIds : tests[i].status = Passed /\ IsFailed(tests[j].status)

\* --------------------------------------------------------------------- C23
\* C23: a finished test whose body was run has the outcome its body
\* produced, whatever its after_each hooks returned, and each after_each
\* hook was invoked for it once unless the lock of that hook is poisoned:
\* a failing or panicking after_each hook ends neither the loop nor changes
\* the result.
C23_AfterEachFailureIsLogged ==
    \A idx \in TestIds :
        (HooksOn /\ Finished(idx) /\ BodyRuns(idx) = 1) =>
            /\ Outcome(idx) = BodyOutcome(idx)
            /\ \A h \in 1..Len(hooks.after_each) :
                   \/ Times(events[idx], "after_each", h) = 1
                   \/ mutex.after_each[h].poisoned

\* The only test of a run passed although both of its after_each hooks
\* panicked.
C23_Witness ==
    /\ pc = "returned"
    /\ HooksOn
    /\ Len(tests) = 1
    /\ tests[1].status = Passed
    /\ Len(hooks.after_each) = 2
    /\ \A h \in 1..2 : /\ Times(events[1], "after_each", h) = 1
                       /\ mutex.after_each[h].poisoned

\* --------------------------------------------------------------------- C24
\* C24: when a run has completed normally the cleanup registry is empty and
\* no container that was registered in it is still running.
C24_CleanupOnCompletion ==
  LET \* The run went through its tests and returned from the summary.
      NormalCompletion ==
          pc = "returned" /\ tests # << >> /\ test_indices # << >> /\ ~BeforeAllFailed
  IN
    NormalCompletion =>
        /\ CONTAINER_REGISTRY = << >>
        /\ \A i \in 1..Len(infos) :
               infos[i].info.auto_cleanup =>
                   infos[i].info.container_id \notin RunningIds

\* --------------------------------------------------------------------- C25
\* A step that is one call of stop.
StopStep == last_stop' # last_stop /\ CONTAINER_REGISTRY' = CONTAINER_REGISTRY

C26_PortMappings ==
    \A s \in 1..Len(infos) :
        LET cfg == infos[s].cfg
            pm == infos[s].info.port_mappings
            urls == infos[s].info.urls
            n == Len(cfg.ports)
        IN  /\ Len(pm) = n + Len(cfg.auto_ports)
            /\ \A i \in 1..n : pm[i] = cfg.ports[i]
            /\ \A j \in 1..Len(cfg.auto_ports) :
                   pm[n + j][2] = cfg.auto_ports[j] /\ pm[n + j][1] > 1023
            /\ Len(urls) = Len(pm)
            /\ \A i \in 1..Len(pm) :
                   urls[i] = << "http://localhost:", pm[i][1] >>

\* Both builds have started a container with two declared pairs and two
\* auto ports.
C26_Witness ==
    \E s \in 1..Len(infos) :
        /\ Len(infos[s].cfg.ports) = 2
        /\ Len(infos[s].cfg.auto_ports) = 2
        /\ Len(infos[s].info.urls) = 4

\* --------------------------------------------------------------------- C27
\* The host port assigned to an auto port.
AutoHostPort(x) ==
    infos[x[1]].info.port_mappings[Len(infos[x[1]].cfg.ports) + x[2]][1]

\* C27: the host ports assigned to auto ports are pairwise distinct, within
\* one call of start and between any two calls.
C27_AutoPortsDistinct ==
  LET \* The auto ports of the starts so far, as pairs (start, position).
      AutoSlots ==
          {x \in (1..MaxStarts) \X (1..MaxAuto) :
              x[1] <= Len(infos) /\ x[2] <= Len(infos[x[1]].cfg.auto_ports)}
  IN
    \A x, y \in AutoSlots : x # y => AutoHostPort(x) # AutoHostPort(y)

\* --------------------------------------------------------------------- C28
\* C28: when the config names Graceful(grace), a test with limit L is run
\* under that strategy, and once finished it is Failed(Timeout(L)) if and
\* only if its body delivered nothing within L.
C28_GracefulTimeoutIffLimitExceeded ==
    \A idx \in TimedTests :
        (config.timeout_config = Graceful(Grace) /\ Finished(idx)) =>
            /\ threads[idx].strategy = Some(Graceful(Grace))
            /\ Outcome(idx) = Failed(Timeout(tests[idx].timeout[1]))
                   <=> ~WithinLimit(idx)

\* --------------------------------------------------------------------- C29
\* The result that the envelope of a test whose deadline won holds or has
\* reported is Timeout(limit), and nothing the body set is in its context.
TimeoutStays ==
  LET \* The envelope of idx gave up waiting: the deadline won.
      DeadlineWon(idx) == threads[idx].state \in {"abandoned", "late"}
  IN
    \A idx \in 1..Len(threads) :
        DeadlineWon(idx) =>
            /\ \A w \in Workers :
                   (workers[w].phase # "idle" /\ workers[w].idx = idx) =>
                       /\ workers[w].test_result =
                              Err(Timeout(tests[idx].timeout[1]))
                       /\ workers[w].body_set = EmptyData
            /\ (\A w \in Workers :
                   workers[w].phase = "idle" \/ workers[w].idx # idx) =>
                       Outcome(idx) = Failed(Timeout(tests[idx].timeout[1]))

\* A step of a detached body: it ends after the deadline has won.
LateStep ==
    \E idx \in 1..Len(threads) :
        /\ threads[idx].state = "abandoned"
        /\ idx <= Len(threads')
        /\ threads'[idx].state = "late"

\* C29: once the deadline has won for a test its result is Timeout(limit)
\* and stays so, and the end of the detached body, whatever it returns,
\* raises or writes, changes neither a status, nor an envelope and its
\* context, nor the collected results, the shared maps or the counters.
C29_DeadlineIsFinal ==
    /\ []TimeoutStays
    /\ [][LateStep =>
            UNCHANGED << tests, workers, results, overall, events, calls,
                         shared_context, GLOBAL_SHARED_DATA, published,
                         mutex, dispatched, pc, ret >>]_vars

\* The body of a test ended after its deadline had won; the test is
\* Failed(Timeout(limit)) and a test that ran after it passed.
C29_Witness ==
    /\ pc = "returned"
    /\ \E idx \in 1..Len(threads), j \in TestIds :
          /\ threads[idx].state = "late"
          /\ tests[idx].status = Failed(Timeout(Limit))
          /\ j > idx
          /\ tests[j].status = Passed

\* --------------------------------------------------------------------- C30
\* The run has returned: every retained test has its final status and,
\* with hooks enabled, every after_all hook was invoked.
RunCompleted ==
    /\ pc = "returned"
    /\ \A idx \in Selected : IsTerminal(tests[idx].status)
    /\ HooksOn => \A h \in 1..Len(hooks.after_all) :
                      Times(calls, "after_all", h) = 1

C31_HookMutualExclusion ==
  LET \* Worker w is inside hook k of the list: it holds the guard.
      Inside(w, list, k) ==
          workers[w].phase = locked(list) /\ workers[w].k = k
  IN
    pc = "parallel" =>
        \A list \in {"before_each", "after_each"} :
            \A k \in 1..Len(mutex[list]) :
                /\ \A w1, w2 \in Workers :
                       (Inside(w1, list, k) /\ Inside(w2, list, k)) => w1 = w2
                /\ \A w \in Workers :
                       Inside(w, list, k) => mutex[list][k].holder = w

\* One worker is inside a before_each hook while another worker, whose
\* test needs the same hook, waits for its mutex.
C31_Witness ==
    /\ pc = "parallel"
    /\ \E w1, w2 \in Workers :
          /\ w1 # w2
          /\ workers[w1].phase = locked("before_each")
          /\ workers[w2].phase = "before_each"
          /\ workers[w1].k = workers[w2].k
          /\ workers[w1].idx # workers[w2].idx

\* --------------------------------------------------------------------- C32
\* C32: on a pool of n = max_concurrency > 1 threads at most n tests are
\* between dispatch and their outcome; each of them is run by exactly one
\* thread of the pool, which runs nothing else until the outcome is there;
\* no test gets two outcomes or two invocations of its body, and when the
\* pool is done every retained test has exactly one outcome.
C32_BoundedParallelism ==
  LET n == config.max_concurrency[1]
      \* The outcomes collected for test idx.
      OutcomesOf(idx) == {r \in results : r[1] = idx}
      \* The tests that were handed out.
      Handed == {test_indices[p] : p \in dispatched}
      \* The tests between dispatch and outcome.
      InFlight == {idx \in Handed : OutcomesOf(idx) = {}}
      \* The threads that are running test idx.
      Runners(idx) ==
          {w \in Workers : workers[w].phase # "idle" /\ workers[w].idx = idx}
      \* The invocations of the body of test idx.
      Bodies(idx) ==
          {i \in 1..Len(events[idx]) : events[idx][i][1] = "body"}
  IN
    (IsSome(config.max_concurrency) /\ n > 1
       /\ pc \in {"parallel", "after_all", "returned"}
       /\ test_indices # << >>) =>
        /\ Cardinality(InFlight) <= n
        /\ \A idx \in InFlight :
               Cardinality(Runners(idx)) = 1 /\ Runners(idx) \subseteq 1..n
        /\ \A w \in Workers :
               workers[w].phase # "idle" => workers[w].idx \in InFlight
        /\ \A idx \in TestIds :
               /\ Cardinality(OutcomesOf(idx)) <= 1
               /\ Cardinality(Bodies(idx)) <= 1
               /\ OutcomesOf(idx) # {} => idx \in Handed
        /\ pc # "parallel" =>
               \A p \in 1..Len(test_indices) :
                   Cardinality(OutcomesOf(test_indices[p])) = 1

\* Every thread of the pool is running a test and a further retained test
\* has not been handed out yet.
C32_Witness ==
    /\ pc = "parallel"
    /\ config.max_concurrency = Some(MaxWorkers)
    /\ \A w \in 1..MaxWorkers : workers[w].phase # "idle"
    /\ \E p \in 1..Len(test_indices) : p \notin dispatched

\* --------------------------------------------------------------------- C33
\* C33: with max_concurrency 1 or 0 the run is sequential: only the calling
\* thread runs tests, one at a time and in the order of test_indices; when
\* a test is handed out every test before it in that order has its final
\* status and its envelope is over; within an envelope the before_each
\* hooks come before the body and the body before the after_each hooks.
C33_StrictlySequential ==
  LET \* The kinds of the closures invoked for test idx, in order.
      Kind(idx, i) == events[idx][i][1]
      \* The test at position p of test_indices is in its envelope.
      InEnvelope(p) ==
          workers[0].phase # "idle" /\ workers[0].idx = test_indices[p]
  IN
    (config.max_concurrency \in {Some(0), Some(1)}
       /\ pc \in {"sequential", "parallel", "after_all", "returned"}) =>
        /\ pc # "parallel"
        /\ results = {}
        /\ \A w \in Workers \ {0} : workers[w].phase = "idle"
        /\ \E m \in 0..Len(test_indices) : dispatched = 1..m
        /\ \A p \in dispatched :
               /\ \A q \in 1..(p - 1) :
                      /\ IsTerminal(tests[test_indices[q]].status)
                      /\ ~InEnvelope(q)
               /\ (p + 1) \notin dispatched =>
                      (InEnvelope(p) \/ IsTerminal(tests[test_indices[p]].status))
        /\ \A p \in 1..Len(test_indices) :
               p \notin dispatched => events[test_indices[p]] = << >>
        /\ \A idx \in TestIds :
               \A i \in 1..Len(events[idx]) : \A j \in (i + 1)..Len(events[idx]) :
                   /\ Kind(idx, j) = "before_each" => Kind(idx, i) = "before_each"
                   /\ Kind(idx, i) = "after_each" => Kind(idx, j) = "after_each"

\* With a concurrency of zero the second retained test is in its body:
\* the first one has passed after its before_each hook, its body and its
\* after_each hook, and the before_each hook of the second has run.
C33_Witness ==
    /\ config.max_concurrency = Some(0)
    /\ pc = "sequential"
    /\ dispatched = {1, 2}
    /\ workers[0].phase = "body"
    /\ workers[0].idx = test_indices[2]
    /\ tests[test_indices[1]].status = Passed
    /\ Len(events[test_indices[1]]) = 3
    /\ Len(events[test_indices[2]]) = 1

C35_RegisteredIffAutoCleanup ==
    [][Len(infos') = Len(infos) + 1 =>
           LET started == infos'[Len(infos')] IN
           vec_contains(CONTAINER_REGISTRY', started.info.container_id)
               <=> started.cfg.auto_cleanup]_vars

\* --------------------------------------------------------------------- C36
\* C36: when a call of start with auto_cleanup set fails after its
\* container was created and started (the readiness loop timed out), the
\* id of that container is in the cleanup registry.
C36_FailedStartIsRegistered ==
    [][\A c \in Callers :
           (/\ in_flight[c] # None
            /\ in_flight'[c] = None
            /\ in_flight[c][1].cfg.auto_cleanup
            /\ Len(infos') = Len(infos)) =>
               \A d \in daemon' \ daemon :
                   vec_contains(CONTAINER_REGISTRY', d.id)]_vars

\* --------------------------------------------------------------------- C37
\* C37: whatever the daemon does with it, a call of stop returns success.
C37_StopNeverFails ==
    last_stop # None => last_stop[1].result = Ok

\* --------------------------------------------------------------------- C38
\* C38: every id that was registered for cleanup is, at any moment, in
\* exactly one place: in the registry, in the list one cleanup call has
\* drained and not yet worked through, or among the ids one cleanup call
\* has called stop for -- and there once.  So no id is drained by two
\* calls or stopped twice, an id registered while a call is stopping stays
\* in the registry, and no id is dropped when a stop fails or panics.
C38_CleanupDrainsOnce ==
  LET \* Where the registered ids are, as one list.
      Places ==
          CONTAINER_REGISTRY
              \o cleaners[1].pending \o cleaners[2].pending
              \o cleaners[1].stopped \o cleaners[2].stopped
      \* The ids that start has registered.
      Registered ==
          {infos[i].info.container_id :
               i \in {j \in 1..Len(infos) :
                         build = "docker" /\ infos[j].cfg.auto_cleanup}}
  IN
    /\ \A i, j \in 1..Len(Places) : Places[i] = Places[j] => i = j
    /\ {Places[i] : i \in 1..Len(Places)} = Registered

\* A container was registered while a cleanup call of another thread was
\* still stopping the container it had drained.
C38_Witness ==
    \E c \in Callers :
        /\ cleaners[c].pending # << >>
        /\ CONTAINER_REGISTRY # << >>
        /\ \A i \in 1..Len(CONTAINER_REGISTRY) :
               ~vec_contains(cleaners[c].pending, CONTAINER_REGISTRY[i])


\* --------------------------------------------------------------------- C39
\* C39: the context a test is given when it is dispatched holds exactly
\* the values that the before_all hooks of the current run published; in a
\* run without before_all hooks, or with skip_hooks, it is empty, whatever
\* an earlier run left in the process-wide map.
C39_ContextFromCurrentRunOnly ==
    [][\A w \in Workers :
           (workers[w].phase = "idle" /\ workers'[w].phase # "idle") =>
               workers'[w].ctx =
                   IF runs_before_all
                   THEN publish(GLOBAL_SHARED_DATA, shared_context)
                   ELSE EmptyData]_vars


\* --------------------------------------------------------------------- C40
\* C40: a before_each hook stays usable after it panicked.  Its lock is
\* never left poisoned, and no test is failed because the lock of a
\* before_each hook could not be acquired.
C40_HookUsableAfterPanic ==
    /\ \A k \in 1..Len(mutex.before_each) : ~mutex.before_each[k].poisoned
    /\ \A idx \in TestIds :
           Outcome(idx) # Failed(Message("Failed to acquire hook lock"))

====
